---------------------------- MODULE Spec2Model ----------------------------
(***************************************************************************)
(* Country-indicator fetchers (WWWD/scripts): the extraction of the latest *)
(* observation per country and the merge of per-source field maps into the *)
(* persisted JSON store.                                                   *)
(*                                                                         *)
(* Python values are tagged records, so that None, numbers, strings and    *)
(* the float nan can sit in one cell or one JSON slot.  A dict is a        *)
(* function whose DOMAIN is its key set; {} is << >>.  Column indexes are  *)
(* 0-based as in the source, rows are 1-based sequences.                   *)
(***************************************************************************)
EXTENDS Integers, Sequences, FiniteSets, TLC

VARIABLES
    un_data,        \* fet_UN_data.main: the store being filled
    total_merged,   \* fet_UN_data.main: running count of merged values
    un_pc,          \* fet_UN_data.main: position in main
    un_i,           \* fet_UN_data.main: 1-based index of the next FILES entry
    un_disk,        \* content of data/un/un_data.json
    un_loaded,      \* the store as json.load returned it (history)
    unesco_data,    \* fetch_unesco.main: the store being filled
    unesco_pc,      \* fetch_unesco.main: position in main
    unesco_step,    \* fetch_unesco.main: 1-based index of the next step
    unesco_disk,    \* content of data/unesco/unesco_data.json
    rf_hdr,         \* read_file: (iso3_col, year_col, field_cols) of the header
    rf_rows,        \* read_file: the rows below the header row
    rf_pos,         \* read_file: 1-based index of the next row of the loop
    rf_acc,         \* read_file: (result, best_year)
    ps_year_cols,   \* parse_sheet: the year labels of the header row
    ps_sheet,       \* parse_sheet: (field_name, multiply_by) of the sheet
    ps_n,           \* parse_sheet: number of rows the loop has taken
    ps_row,         \* parse_sheet: the row the loop took last (history)
    ps_acc,         \* parse_sheet: (result, skipped)
    imf_data,       \* fetch_imf_data.main: the store being filled
    imf_pc,         \* fetch_imf_data.main: position in main
    imf_i,          \* fetch_imf_data.main: 1-based index of the next indicator
    imf_disk,       \* content of data/imf/imf_data.json
    imf_resp,       \* fetch_imf_data.main: the response fetched last (history)
    call_fn,        \* the function called on its own
    call_in,        \* its argument
    call_out,       \* what it returned
    call_done,      \* whether it has returned
    owid_data,      \* fetch_owid.main: the store being filled
    owid_loaded,    \* the store as json.load returned it (history)
    owid_disk,      \* content of data/owid/owid_data.json
    owid_pc,        \* fetch_owid.main: position in main
    owid_i,         \* fetch_owid.main: 1-based index of the next indicator
    owid_j,         \* fetch_owid.main: 1-based index of the next slug
    owid_found,     \* fetch_owid.main: found
    owid_success,   \* fetch_owid.main: success
    owid_failed,    \* fetch_owid.main: failed
    owid_n,         \* fetch_owid.main: n, what store returned last
    owid_log,       \* the fetch_url calls of the slug loop, with what
                    \* extract_latest gave for each (history)
    zip_cache,      \* get_zip: content of the cache file, None when absent
    zip_pc,         \* get_zip: position in the function
    zip_j,          \* get_zip: 1-based index of the next release slug
    zip_ret,        \* get_zip: the value returned
    zip_log         \* get_zip: the requests issued, with their responses
                    \* (history)

unVars == <<un_data, total_merged, un_pc, un_i, un_disk, un_loaded>>

unescoVars == <<unesco_data, unesco_pc, unesco_step, unesco_disk>>

rfVars == <<rf_hdr, rf_rows, rf_pos, rf_acc>>

sipriVars == <<ps_year_cols, ps_sheet, ps_n, ps_row, ps_acc>>

imfVars == <<imf_data, imf_pc, imf_i, imf_disk, imf_resp>>

callVars == <<call_fn, call_in, call_out, call_done>>

owidVars == <<owid_data, owid_loaded, owid_disk, owid_pc, owid_i, owid_j,
              owid_found, owid_success, owid_failed, owid_n, owid_log>>

zipVars == <<zip_cache, zip_pc, zip_j, zip_ret, zip_log>>

vars == <<unVars, unescoVars, rfVars, sipriVars, imfVars, callVars,
          owidVars, zipVars>>

---------------------------------------------------------------------------
(* Bounds of the model *)

\* cell and stored numbers range over 0..MaxValue
MaxValue == 1
\* data rows below the header in one modelled sheet
MaxSheetRows == 2

---------------------------------------------------------------------------
(* Python values *)

None == [t |-> "None"]
Num(n) == [t |-> "num", n |-> n]
Str(s) == [t |-> "str", s |-> s]
\* the float nan, as float("nan") returns it
NaN == [t |-> "nan"]

IsNum(v) == v.t = "num"
IsStr(v) == v.t = "str"

\* bool(v): None, 0 and "" are falsy; nan is truthy
Truthy(v) ==
    CASE v.t = "None" -> FALSE
      [] v.t = "num"  -> v.n # 0
      [] v.t = "str"  -> v.s # ""
      [] OTHER        -> TRUE

Digits == <<"0", "1", "2", "3", "4", "5", "6", "7", "8", "9">>

\* str(n) for an int n >= 0
RECURSIVE StrOfInt(_)
StrOfInt(n) ==
    IF n < 10 THEN Digits[n + 1]
    ELSE StrOfInt(n \div 10) \o Digits[(n % 10) + 1]

\* the numbers whose decimal text float() is asked to read in the model
ParseRange == (0 .. 9) \cup {730, 1234} \cup (2019 .. 2031)

\* str(v).  A whole float prints with a trailing ".0", which float() reads
\* back to the same number, so numbers print as their integer text.
PyStr(v) ==
    CASE v.t = "None" -> "None"
      [] v.t = "num"  -> StrOfInt(v.n)
      [] v.t = "str"  -> v.s
      [] OTHER        -> "nan"

\* str.strip() and str.upper() on the texts the model uses
Strip(s) ==
    CASE s = " usa " -> "usa"
      [] s = " 1 "   -> "1"
      [] s = " "     -> ""
      [] OTHER       -> s

Upper(s) ==
    CASE s = "usa"   -> "USA"
      [] s = "fra"   -> "FRA"
      [] s = "n/a"   -> "N/A"
      [] s = "nan"   -> "NAN"
      [] s = "NaN"   -> "NAN"
      [] s = "xxx"   -> "XXX"
      [] s = "World" -> "WORLD"
      [] OTHER       -> s

\* float(text): ok with the value, or ValueError.  Python accepts "nan" in
\* any letter case and surrounding blanks; it rejects "", "...", "xxx",
\* "None", words and digit groups with commas.
FloatOfText(s) ==
    LET u == Upper(Strip(s)) IN
    IF u = "NAN" THEN [ok |-> TRUE, val |-> NaN]
    ELSE IF \E n \in ParseRange : StrOfInt(n) = Strip(s)
         THEN [ok |-> TRUE,
               val |-> Num(CHOOSE n \in ParseRange : StrOfInt(n) = Strip(s))]
         ELSE [ok |-> FALSE, val |-> None]

\* float(v): TypeError on None
PyFloat(v) ==
    CASE v.t = "None" -> [ok |-> FALSE, val |-> None]
      [] v.t = "num"  -> [ok |-> TRUE, val |-> v]
      [] v.t = "str"  -> FloatOfText(v.s)
      [] OTHER        -> [ok |-> TRUE, val |-> NaN]

\* int(float(str(v))): ValueError also when the float is nan
PyIntOfFloatOfStr(v) ==
    LET f == FloatOfText(PyStr(v)) IN
    IF f.ok /\ IsNum(f.val) THEN [ok |-> TRUE, n |-> f.val.n]
    ELSE [ok |-> FALSE, n |-> 0]

---------------------------------------------------------------------------
(* dicts *)

EmptyDict == << >>

\* d.get(k), None when the key is absent
DictGet(d, k) == IF k \in DOMAIN d THEN d[k] ELSE None

\* d[k] = v
DictSet(d, k, v) == [x \in (DOMAIN d) \cup {k} |-> IF x = k THEN v ELSE d[x]]

\* d.update(e)
DictUpdate(d, e) ==
    [x \in (DOMAIN d) \cup (DOMAIN e) |-> IF x \in DOMAIN e THEN e[x] ELSE d[x]]

\* d.get(k, dflt)
DictGetOr(d, k, dflt) == IF k \in DOMAIN d THEN d[k] ELSE dflt

YearKey(field_name) == field_name \o "_year"

---------------------------------------------------------------------------
(* fet_UN_data.py: read_file, the data rows *)

\* year_col = None
NoCol == -1
\* if yr_int > 2025: continue
UNCutoff == 2025
\* year = "2024", the year recorded when the row has no readable year
UNDefaultYear == "2024"

\* lines 186-195: (yr_int, year) of a row
RowYear(row, year_col) ==
    IF year_col # NoCol /\ year_col < Len(row) /\ row[year_col + 1] # None
    THEN LET p == PyIntOfFloatOfStr(row[year_col + 1]) IN
         IF p.ok THEN [yr_int |-> p.n, year |-> StrOfInt(p.n)]
         ELSE [yr_int |-> 0, year |-> UNDefaultYear]
    ELSE [yr_int |-> 0, year |-> UNDefaultYear]

\* lines 206-212: the fields of one row written over the country's entry
RowFields(entry, row, year, field_cols) ==
    LET hit == {f \in DOMAIN field_cols :
                    /\ field_cols[f] < Len(row)
                    /\ row[field_cols[f] + 1] # None
                    /\ PyFloat(row[field_cols[f] + 1]).ok}
        hitKeys == hit \cup {YearKey(f) : f \in hit}
    IN [k \in (DOMAIN entry) \cup hitKeys |->
          IF k \in hit THEN PyFloat(row[field_cols[k] + 1]).val
          ELSE IF k \in hitKeys THEN Str(year)
          ELSE entry[k]]

\* lines 199-200: a row older than the best year seen for the country is skipped
OlderThanBest(yr_int, best) == yr_int < best

\* lines 178-212: the body of the row loop; acc is (result, best_year)
RowStep(acc, row, iso3_col, year_col, field_cols) ==
    IF iso3_col >= Len(row) THEN acc
    ELSE LET raw == row[iso3_col + 1] IN
    IF ~Truthy(raw) \/ Len(Strip(PyStr(raw))) # 3 THEN acc
    ELSE LET iso3 == Upper(Strip(PyStr(raw)))
             y    == RowYear(row, year_col)
         IN
    IF y.yr_int > UNCutoff THEN acc
    ELSE IF iso3 \in DOMAIN acc.best_year
            /\ OlderThanBest(y.yr_int, acc.best_year[iso3]) THEN acc
    ELSE [result    |-> DictSet(acc.result, iso3,
                          RowFields(DictGetOr(acc.result, iso3, EmptyDict),
                                    row, y.year, field_cols)),
          best_year |-> DictSet(acc.best_year, iso3, y.yr_int)]

\* lines 175-176
RowAcc0 == [result |-> EmptyDict, best_year |-> EmptyDict]

RECURSIVE RowLoop(_, _, _, _, _)
RowLoop(acc, rows, iso3_col, year_col, field_cols) ==
    IF rows = << >> THEN acc
    ELSE RowLoop(RowStep(acc, Head(rows), iso3_col, year_col, field_cols),
                 Tail(rows), iso3_col, year_col, field_cols)

\* lines 175-215: read_file once the header row is mapped
ReadRows(rows, iso3_col, year_col, field_cols) ==
    RowLoop(RowAcc0, rows, iso3_col, year_col, field_cols).result

---------------------------------------------------------------------------
(* fet_UN_data.py: read_file run on one sheet, row by row *)

\* the field of the "Deaths by Age" column map
RFField == "neonateMortality"

\* header mappings map_columns can return for that file: ISO3 in column 0,
\* the data field in column 2, the Year column found (1) or not (None)
RFHeaders ==
    {[iso3_col |-> 0, year_col |-> yc, field_cols |-> (RFField :> 2)] :
        yc \in {1, NoCol}}

\* rows of the sheet: a country code or a region label, a year cell below,
\* at and above the cutoff or empty, a data cell empty or numeric
RFRowSet ==
    {<<iso, yr, val>> :
        iso \in {Str("USA"), Str("World")},
        yr  \in {Num(UNCutoff - 1), Num(UNCutoff), Num(UNCutoff + 1), None},
        val \in {None} \cup {Num(v) : v \in 0 .. MaxValue}}

\* rows that hold text where a code or a number is expected: the text nan
\* in the data cell, a 3-character ISO3 cell that is no country code
RFTextRowSet ==
    {<<Str("USA"), Num(UNCutoff - 1), Str("nan")>>,
     <<Str("n/a"), Num(UNCutoff - 1), Num(1)>>}

RFInit ==
    /\ rf_hdr \in RFHeaders
    /\ rf_rows \in UNION {[1 .. k -> RFRowSet] \cup [1 .. k -> RFTextRowSet] :
                              k \in 0 .. MaxSheetRows}
    /\ rf_pos = 1
    /\ rf_acc = RowAcc0

RFIdle ==
    /\ rf_hdr = [iso3_col |-> 0, year_col |-> NoCol, field_cols |-> EmptyDict]
    /\ rf_rows = << >>
    /\ rf_pos = 0
    /\ rf_acc = RowAcc0

\* lines 178-212: one pass of the row loop
RF_Row ==
    /\ rf_pos >= 1
    /\ rf_pos <= Len(rf_rows)
    /\ rf_acc' = RowStep(rf_acc, rf_rows[rf_pos],
                         rf_hdr.iso3_col, rf_hdr.year_col, rf_hdr.field_cols)
    /\ rf_pos' = rf_pos + 1
    /\ UNCHANGED <<rf_hdr, rf_rows>>

\* lines 214-215: the loop is over and result is returned
RFDone == rf_pos = Len(rf_rows) + 1

RFNext == RF_Row

---------------------------------------------------------------------------
(* fet_UN_data.py: main, the fill-only merge *)

\* the FILES entries of the model: "Deaths by Age" and "Female Deaths Age",
\* each with the one data field its column map names
FILES ==
    << [keyword |-> "Deaths by Age",     field |-> "neonateMortality"],
       [keyword |-> "Female Deaths Age", field |-> "neonateMortalityF"] >>

NumFiles == Len(FILES)

\* a merge that writes every offered value (last writer wins)
FieldIsMissing_Always(rec, field) == TRUE

\* a merge that tests truthiness, `if not un_data[iso3].get(field)`
FieldIsMissing_Falsy(rec, field) == ~Truthy(DictGet(rec, field))

\* line 246: un_data[iso3].get(field) is None
FieldIsMissing(rec, field) == DictGet(rec, field) = None

\* lines 245-248 for one country: the entry after the inner loop
MergeEntity(old, fields) ==
    [k \in (DOMAIN old) \cup (DOMAIN fields) |->
        IF k \in DOMAIN fields /\ FieldIsMissing(old, k) THEN fields[k]
        ELSE old[k]]

\* lines 242-248: un_data after the merge of new_data
MergeStore(store, new_data) ==
    [e \in (DOMAIN store) \cup (DOMAIN new_data) |->
        IF e \in DOMAIN new_data
        THEN MergeEntity(DictGetOr(store, e, EmptyDict), new_data[e])
        ELSE store[e]]

\* a counter incremented once per offered value, outside the `if`
MergeCount_All(store, new_data) ==
    Cardinality(UNION {{<<e, k>> : k \in DOMAIN new_data[e]} : e \in DOMAIN new_data})

\* line 248: what the merge of new_data adds to total_merged
MergeCount(store, new_data) ==
    Cardinality(
        {p \in UNION {{<<e, k>> : k \in DOMAIN new_data[e]} : e \in DOMAIN new_data} :
            FieldIsMissing(DictGetOr(store, p[1], EmptyDict), p[2])})

---------------------------------------------------------------------------
(* the sheets and stored files the model draws from *)

SeqsUpTo(S, n) == UNION {[1 .. k -> S] : k \in 0 .. n}

Values == 0 .. MaxValue

\* a data row of a modelled UN sheet: ISO3 cell, Year cell, one data cell
UNRows ==
    {<<iso, yr, val>> :
        iso \in {Str("USA"), Str("fra")},
        yr  \in {Num(2025)},
        val \in {None} \cup {Num(v) : v \in Values}}

UNSheets == SeqsUpTo(UNRows, MaxSheetRows)

\* what read_file can return for FILES[i]: {} when the header row or the ISO3
\* column is not found (lines 159-161, 169-173), else the rows' result with
\* the header mapped to ISO3 = column 0, Year = column 1, field = column 2
ReadFileResults ==
    [i \in 1 .. NumFiles |->
        {EmptyDict}
        \cup {ReadRows(rows, 0, 1, FILES[i].field :> 2) : rows \in UNSheets}]

SourceMaps == UNION {ReadFileResults[i] : i \in 1 .. NumFiles}

\* the JSON file left by earlier runs and by convert_un_xlsx.py: any JSON
\* values, null included, under the keys of one field of one country
StoredValues == {None, Str(""), Str("2023")} \cup {Num(v) : v \in Values}

StoredEntries ==
    UNION {[K -> StoredValues] :
             K \in SUBSET {FILES[1].field, YearKey(FILES[1].field)}}

InitStores == {EmptyDict} \cup {"USA" :> rec : rec \in StoredEntries}

\* a file: absent, holding a complete JSON document, or truncated / partly
\* written
NoFile == [state |-> "missing"]
PartialFile == [state |-> "partial"]
JsonFile(store) == [state |-> "json", data |-> store]

---------------------------------------------------------------------------
(* fet_UN_data.py: main as a state machine *)

UNInit ==
    /\ un_disk \in {NoFile} \cup {JsonFile(st) : st \in InitStores}
    /\ un_data = EmptyDict
    /\ un_loaded = EmptyDict
    /\ total_merged = 0
    /\ un_pc = "start"
    /\ un_i = 1

\* lines 224-226: un_data.json does not exist, sys.exit(1)
UN_LoadMissing ==
    /\ un_pc = "start"
    /\ un_disk = NoFile
    /\ un_pc' = "exit1"
    /\ UNCHANGED <<un_data, total_merged, un_i, un_disk, un_loaded>>

\* lines 227-232
UN_Load ==
    /\ un_pc = "start"
    /\ un_disk.state = "json"
    /\ un_data' = un_disk.data
    /\ un_loaded' = un_disk.data
    /\ total_merged' = 0
    /\ un_i' = 1
    /\ un_pc' = "loop"
    /\ UNCHANGED <<un_disk>>

\* lines 234-237: find_file returns None, the entry is skipped
UN_FileNotFound ==
    /\ un_pc = "loop"
    /\ un_i <= NumFiles
    /\ un_i' = un_i + 1
    /\ UNCHANGED <<un_data, total_merged, un_pc, un_disk, un_loaded>>

\* lines 239-248: read_file returns new_data, which is merged
UN_ReadAndMerge ==
    /\ un_pc = "loop"
    /\ un_i <= NumFiles
    /\ \E new_data \in ReadFileResults[un_i] :
          /\ un_data' = MergeStore(un_data, new_data)
          /\ total_merged' = total_merged + MergeCount(un_data, new_data)
    /\ un_i' = un_i + 1
    /\ UNCHANGED <<un_pc, un_disk, un_loaded>>

\* line 142 (called from line 239): openpyxl.load_workbook raises on a file
\* that is not a workbook; neither read_file nor main catches it
UN_ReadFileRaises ==
    /\ un_pc = "loop"
    /\ un_i <= NumFiles
    /\ un_pc' = "raised_read_file"
    /\ UNCHANGED <<un_data, total_merged, un_i, un_disk, un_loaded>>

\* line 263: open(UN_PATH, "w") truncates the file
UN_OpenForWrite ==
    /\ un_pc = "loop"
    /\ un_i > NumFiles
    /\ un_disk' = PartialFile
    /\ un_pc' = "dump"
    /\ UNCHANGED <<un_data, total_merged, un_i, un_loaded>>

\* line 263: open raises (no permission), the file is untouched
UN_OpenFails ==
    /\ un_pc = "loop"
    /\ un_i > NumFiles
    /\ un_pc' = "raised_open"
    /\ UNCHANGED <<un_data, total_merged, un_i, un_disk, un_loaded>>

\* line 264: json.dump writes the whole document and the file is closed
UN_Dump ==
    /\ un_pc = "dump"
    /\ un_disk' = JsonFile(un_data)
    /\ un_pc' = "done"
    /\ UNCHANGED <<un_data, total_merged, un_i, un_loaded>>

\* line 264: the write fails or the process is killed part-way
UN_DumpFails ==
    /\ un_pc = "dump"
    /\ un_pc' = "raised_dump"
    /\ UNCHANGED <<un_data, total_merged, un_i, un_disk, un_loaded>>

UNNext ==
    \/ UN_LoadMissing
    \/ UN_Load
    \/ UN_FileNotFound
    \/ UN_ReadAndMerge
    \/ UN_ReadFileRaises
    \/ UN_OpenForWrite
    \/ UN_OpenFails
    \/ UN_Dump
    \/ UN_DumpFails

\* the script is not run
UNIdle ==
    /\ un_disk = NoFile
    /\ un_data = EmptyDict
    /\ un_loaded = EmptyDict
    /\ total_merged = 0
    /\ un_pc = "idle"
    /\ un_i = 1

---------------------------------------------------------------------------
(* fetch_unesco.py: main *)

\* lines 301-304: the two bulk files, each with the one indicator field the
\* model keeps; OPRI results fill, SDG results overwrite (lines 331-336)
UnescoSteps ==
    << [zip_name |-> "SDG",  field |-> "literacyAdult"],
       [zip_name |-> "OPRI", field |-> "rdSpendGDP"] >>

NumUnescoSteps == Len(UnescoSteps)

\* lines 265-276: what process_csv returns for a step: {} (parse error,
\* columns or codes missing), else for some countries the float value and
\* the year text of the latest row
ProcessCsvResults ==
    [i \in 1 .. NumUnescoSteps |->
        UNION {[E -> {(UnescoSteps[i].field :> Num(v))
                        @@ (YearKey(UnescoSteps[i].field) :> Str("2025")) :
                      v \in Values}] :
               E \in SUBSET {"USA", "FRA"}}]

\* lines 332-334: for k, v in fields.items(): if k not in the entry, set it
OpriEntity(old, fields) ==
    [k \in (DOMAIN old) \cup (DOMAIN fields) |->
        IF k \in DOMAIN old THEN old[k] ELSE fields[k]]

\* lines 330-336: unesco_data after the merge of one step's results
UnescoMerge(store, results, zip_name) ==
    [e \in (DOMAIN store) \cup (DOMAIN results) |->
        IF e \notin DOMAIN results THEN store[e]
        ELSE IF zip_name = "OPRI"
             THEN OpriEntity(DictGetOr(store, e, EmptyDict), results[e])
             ELSE DictUpdate(DictGetOr(store, e, EmptyDict), results[e])]

\* the JSON file left by earlier runs, under the keys of the OPRI field
UnescoInitStores ==
    {EmptyDict}
    \cup {"USA" :> rec :
            rec \in UNION {[K -> StoredValues] :
                             K \in SUBSET {UnescoSteps[2].field,
                                           YearKey(UnescoSteps[2].field)}}}

UnescoInit ==
    /\ unesco_disk \in {NoFile} \cup {JsonFile(st) : st \in UnescoInitStores}
    /\ unesco_data = EmptyDict
    /\ unesco_pc = "start"
    /\ unesco_step = 1

UnescoIdle ==
    /\ unesco_disk = NoFile
    /\ unesco_data = EmptyDict
    /\ unesco_pc = "idle"
    /\ unesco_step = 1

\* lines 294-299
Unesco_Load ==
    /\ unesco_pc = "start"
    /\ unesco_data' = IF unesco_disk = NoFile THEN EmptyDict ELSE unesco_disk.data
    /\ unesco_pc' = "steps"
    /\ UNCHANGED <<unesco_step, unesco_disk>>

\* lines 311-313, 324-325: no ZIP or no CSV, the step is skipped
Unesco_StepSkipped ==
    /\ unesco_pc = "steps"
    /\ unesco_step <= NumUnescoSteps
    /\ unesco_step' = unesco_step + 1
    /\ UNCHANGED <<unesco_data, unesco_pc, unesco_disk>>

\* lines 327-336
Unesco_StepMerged ==
    /\ unesco_pc = "steps"
    /\ unesco_step <= NumUnescoSteps
    /\ \E results \in ProcessCsvResults[unesco_step] :
          unesco_data' = UnescoMerge(unesco_data, results,
                                     UnescoSteps[unesco_step].zip_name)
    /\ unesco_step' = unesco_step + 1
    /\ UNCHANGED <<unesco_pc, unesco_disk>>

\* line 370: open(OUT_PATH, "w") truncates the file
Unesco_OpenForWrite ==
    /\ unesco_pc = "steps"
    /\ unesco_step > NumUnescoSteps
    /\ unesco_disk' = PartialFile
    /\ unesco_pc' = "dump"
    /\ UNCHANGED <<unesco_data, unesco_step>>

\* line 371: json.dump completes
Unesco_Dump ==
    /\ unesco_pc = "dump"
    /\ unesco_disk' = JsonFile(unesco_data)
    /\ unesco_pc' = "done"
    /\ UNCHANGED <<unesco_data, unesco_step>>

\* line 371: the write fails or the process is killed part-way
Unesco_DumpFails ==
    /\ unesco_pc = "dump"
    /\ unesco_pc' = "raised_dump"
    /\ UNCHANGED <<unesco_data, unesco_step, unesco_disk>>

UnescoNext ==
    \/ Unesco_Load
    \/ Unesco_StepSkipped
    \/ Unesco_StepMerged
    \/ Unesco_OpenForWrite
    \/ Unesco_Dump
    \/ Unesco_DumpFails

---------------------------------------------------------------------------
(* fetch_sipri.py: country_to_iso3 *)

\* str.lower() on the texts the model uses
Lower(s) ==
    CASE s = "World"         -> "world"
      [] s = "Country"       -> "country"
      [] s = "EUROPE"        -> "europe"
      [] s = "United States" -> "united states"
      [] s = "France"        -> "france"
      [] s = "Atlantis"      -> "atlantis"
      [] s = "NAN"           -> "nan"
      [] s = "NaN"           -> "nan"
      [] s = "None"          -> "none"
      [] s = "XXX"           -> "xxx"
      [] s = "ISO3"          -> "iso3"
      [] s = "Year"          -> "year"
      [] s = "Neonatal"      -> "neonatal"
      [] s = "Under age 1"   -> "under age 1"
      [] s = "Total"         -> "total"
      [] s = "Dependency"    -> "dependency"
      [] s = "Adolescent"    -> "adolescent"
      [] s = "Index"         -> "index"
      [] s = "Notes"         -> "notes"
      [] s = "USA"           -> "usa"
      [] s = "ISO3 Alpha-code" -> "iso3 alpha-code"
      [] s = "Total births per year" -> "total births per year"
      [] s = "Dependency ratio (0-14 and 65+ per 15-64)"
            -> "dependency ratio (0-14 and 65+ per 15-64)"
      [] OTHER               -> s

\* str.isupper() on the texts the model uses
IsUpper(s) == s \in {"EUROPE", "USA", "FRA", "NAN", "XXX", "WORLD"}

\* the entries of NAME_TO_ISO3 the model uses
NAME_TO_ISO3 ==
    ("United States" :> "USA") @@ ("Czechia" :> "CZE")
    @@ ("Czech Republic" :> "CZE")

\* pycountry.countries.get(name=name): the alpha_3 of the record with that
\* name, "" when there is none
pycountry_get(name) ==
    CASE name = "France" -> "FRA"
      [] OTHER           -> ""

\* pycountry.countries.search_fuzzy(name): the alpha_3 of the first match,
\* "" when it raises LookupError
pycountry_search_fuzzy(name) ==
    CASE name = "France" -> "FRA"
      [] OTHER           -> ""

\* what one lookup in pycountry gives: no record, a record, an exception
NoMatch == [kind |-> "none"]
Match(alpha_3) == [kind |-> "hit", alpha_3 |-> alpha_3]
Raises == [kind |-> "raise"]

\* lines 138-160 with the library's answers for the name spelled out: lib is
\* (imported, get, fuzzy): whether `import pycountry` succeeds, and what
\* countries.get and countries.search_fuzzy give for the name.  Here the
\* library is asked before the override table.
ResolveName_LibraryFirst(name, lib) ==
    LET n == Strip(name) IN
    IF lib.imported /\ lib.get.kind = "hit" THEN Str(lib.get.alpha_3)
    ELSE IF lib.imported /\ lib.fuzzy.kind = "hit" THEN Str(lib.fuzzy.alpha_3)
    ELSE IF n \in DOMAIN NAME_TO_ISO3 THEN Str(NAME_TO_ISO3[n])
    ELSE None

\* lines 138-160; None when no step resolves the name.  Every exception
\* inside the try is caught at line 157.
ResolveName(name, lib) ==
    LET n == Strip(name) IN
    IF n \in DOMAIN NAME_TO_ISO3 THEN Str(NAME_TO_ISO3[n])
    ELSE IF ~lib.imported THEN None
    ELSE IF lib.get.kind = "raise" THEN None
    ELSE IF lib.get.kind = "hit" THEN Str(lib.get.alpha_3)
    ELSE IF lib.fuzzy.kind = "hit" THEN Str(lib.fuzzy.alpha_3)
    ELSE None

\* the answers of the installed pycountry for a name
InstalledLib(name) ==
    [imported |-> TRUE,
     get      |-> IF pycountry_get(name) = "" THEN NoMatch
                  ELSE Match(pycountry_get(name)),
     fuzzy    |-> IF pycountry_search_fuzzy(name) = "" THEN Raises
                  ELSE Match(pycountry_search_fuzzy(name))]

\* lines 138-160, with the installed library
country_to_iso3(name) == ResolveName(name, InstalledLib(Strip(name)))

\* the names given to country_to_iso3 on its own
ResolverNames == {"United States", "Czechia", "France", "Atlantis", "USA", "usa"}

\* the library as it can answer for one name: not installed, or get giving
\* no record or a record, and search_fuzzy raising LookupError, giving an
\* empty list or a first match
ResolverLibs ==
    {[imported |-> i, get |-> g, fuzzy |-> f] :
        i \in BOOLEAN,
        g \in {NoMatch, Match("FRA"), Match("UMI")},
        f \in {Raises, NoMatch, Match("FRA"), Match("UMI")}}

---------------------------------------------------------------------------
(* fetch_sipri.py: parse_sheet, the country rows *)

\* the SHEETS entries of the model
SHEETS ==
    {[field_name |-> "milexCurrentUSD", multiply_by |-> 1],
     [field_name |-> "milexPctGDP", multiply_by |-> 100]}

\* str.replace(",", "") on the texts the model uses
RemoveCommas(s) ==
    CASE s = "1,234" -> "1234"
      [] OTHER       -> s

\* line 231: the cell texts passed over before float() is tried
IsSipriPlaceholder(raw) == raw \in {"xxx", "...", "", "nan", "NaN"}

\* line 207: the positions of year_cols, highest year first
RECURSIVE YearColsSorted(_, _)
YearColsSorted(year_cols, left) ==
    IF left = {} THEN << >>
    ELSE LET top == CHOOSE i \in left :
                        \A j \in left :
                            \/ year_cols[j] < year_cols[i]
                            \/ (year_cols[j] = year_cols[i] /\ i <= j)
         IN <<top>> \o YearColsSorted(year_cols, left \ {top})

\* float * multiply_by
Times(v, m) == IF IsNum(v) THEN Num(v.n * m) ELSE v

\* lines 227-238: the loop over year_cols_sorted; (value, year) at the break,
\* (None, None) when the loop runs out
RECURSIVE YearLoop(_, _, _, _)
YearLoop(order, cells, year_cols, multiply_by) ==
    IF order = << >> THEN [value |-> None, year |-> None]
    ELSE LET yc  == Head(order)
             raw == Strip(PyStr(cells[yc]))
             f   == FloatOfText(RemoveCommas(raw))
         IN IF IsSipriPlaceholder(raw) \/ ~f.ok
            THEN YearLoop(Tail(order), cells, year_cols, multiply_by)
            ELSE [value |-> Times(f.val, multiply_by),
                  year  |-> Str(StrOfInt(year_cols[yc]))]

\* lines 214-224: the ISO3 code of a row, None when the row is passed over
\* as a label or a region subtotal or its name is not resolved
RowIso3(row) ==
    LET name == Strip(PyStr(row.name)) IN
    IF name = "" \/ Lower(name) \in {"country", "nan", "notes", "region", "world"}
    THEN None
    ELSE IF IsUpper(name) /\ Len(name) > 3 THEN None
    ELSE country_to_iso3(name)

\* lines 214-219: the row is passed over before country_to_iso3 is called
IsLabelRow(row) ==
    LET name == Strip(PyStr(row.name)) IN
    \/ name = ""
    \/ Lower(name) \in {"country", "nan", "notes", "region", "world"}
    \/ (IsUpper(name) /\ Len(name) > 3)

\* a loop that keeps what an earlier row of the country gave
StoreSelection_KeepFirst(entry, field_name, sel) ==
    IF field_name \in DOMAIN entry THEN entry
    ELSE DictUpdate(entry,
             (field_name :> sel.value) @@ (YearKey(field_name) :> sel.year))

\* lines 244-245: the value and the year are written under the field
StoreSelection(entry, field_name, sel) ==
    DictUpdate(entry,
        (field_name :> sel.value) @@ (YearKey(field_name) :> sel.year))

\* lines 213-245: the body of the row loop; acc is (result, skipped)
ParseRowStep(acc, row, year_cols, sheet) ==
    IF IsLabelRow(row) THEN acc
    ELSE LET iso3 == RowIso3(row) IN
    IF iso3 = None
    THEN [acc EXCEPT !.skipped = Append(@, Strip(PyStr(row.name)))]
    ELSE LET sel == YearLoop(YearColsSorted(year_cols, DOMAIN year_cols),
                             row.cells, year_cols, sheet.multiply_by)
         IN
    IF sel.value = None THEN acc
    ELSE [acc EXCEPT !.result =
            DictSet(@, iso3.s,
                StoreSelection(DictGetOr(@, iso3.s, EmptyDict),
                               sheet.field_name, sel))]

\* the year labels of the header row, in column order
SipriYearCols == {<<2019, 2021, 2020>>, <<2024, 2030, 2025>>}

\* the cells under a year column: numbers, the "..." placeholder, and the
\* text NAN, which pandas keeps as text
SipriCells == {Num(5), Num(7), Str("..."), Str("NAN")}

\* the first cell of a row: an overridden name, a name unknown to pycountry,
\* a label and a region subtotal
SipriNames == {Str("United States"), Str("Atlantis"), Str("World"), Str("EUROPE")}

SipriRows ==
    {[name |-> n, cells |-> c] : n \in SipriNames, c \in [1 .. 3 -> SipriCells]}

NoRow == [name |-> None, cells |-> << >>]

SipriInit ==
    /\ ps_year_cols \in SipriYearCols
    /\ ps_sheet \in SHEETS
    /\ ps_n = 0
    /\ ps_row = NoRow
    /\ ps_acc = [result |-> EmptyDict, skipped |-> << >>]

SipriIdle ==
    /\ ps_year_cols = << >>
    /\ ps_sheet = [field_name |-> "", multiply_by |-> 1]
    /\ ps_n = -1
    /\ ps_row = NoRow
    /\ ps_acc = [result |-> EmptyDict, skipped |-> << >>]

\* lines 213-245: one pass of the row loop, on the next row of the sheet
PS_Row ==
    /\ ps_n >= 0
    /\ ps_n < MaxSheetRows
    /\ \E row \in SipriRows :
          /\ ps_row' = row
          /\ ps_acc' = ParseRowStep(ps_acc, row, ps_year_cols, ps_sheet)
    /\ ps_n' = ps_n + 1
    /\ UNCHANGED <<ps_year_cols, ps_sheet>>

SipriNext == PS_Row

\* lines 210-251: the row loop over the rows below the header row
RECURSIVE ParseLoop(_, _, _, _)
ParseLoop(acc, rows, year_cols, sheet) ==
    IF rows = << >> THEN acc
    ELSE ParseLoop(ParseRowStep(acc, Head(rows), year_cols, sheet),
                   Tail(rows), year_cols, sheet)

\* lines 210-251: what parse_sheet returns for the rows
ParseRows(rows, year_cols, sheet) ==
    ParseLoop([result |-> EmptyDict, skipped |-> << >>],
              rows, year_cols, sheet).result

\* rows under two names that NAME_TO_ISO3 gives one code: a number under one
\* year or under two, or no number
SipriDupRows ==
    {[name |-> n, cells |-> c] :
        n \in {Str("Czechia"), Str("Czech Republic")},
        c \in {<<Num(5), Str("..."), Str("...")>>,
               <<Str("..."), Num(5), Str("...")>>,
               <<Num(7), Str("..."), Str("...")>>,
               <<Str("..."), Num(7), Str("...")>>,
               <<Num(5), Num(7), Str("...")>>,
               <<Str("..."), Str("..."), Str("...")>>}}

SipriDupSheets == SeqsUpTo(SipriDupRows, MaxSheetRows)

---------------------------------------------------------------------------
(* fetch_imf_data.py: fetch_indicator and main *)

\* the INDICATORS entries of the model
INDICATORS ==
    <<[imf_code |-> "NGDP_RPCH", field_name |-> "gdpGrowth"],
      [imf_code |-> "PCPIPCH", field_name |-> "inflation"]>>

NumIndicators == Len(INDICATORS)

\* int of a 4-digit year text
YearOfText(s) == CHOOSE n \in ParseRange : StrOfInt(n) = s

\* line 70: max(year_data.keys()); the keys are 4-digit year texts, whose
\* string order is their numeric order
MaxKey(year_data) ==
    CHOOSE k \in DOMAIN year_data :
        \A j \in DOMAIN year_data : YearOfText(j) <= YearOfText(k)

\* lines 58-82: the result for one response; a failed request, an HTTP error
\* status or a body that is not JSON is caught and gives {}
fetch_indicator(resp) ==
    IF ~resp.ok THEN EmptyDict
    ELSE LET values == resp.values
             kept == {c \in DOMAIN values :
                         /\ values[c] # EmptyDict
                         /\ values[c][MaxKey(values[c])] # None}
         IN [c \in kept |->
               [value |-> values[c][MaxKey(values[c])],
                year  |-> Str(MaxKey(values[c]))]]

\* the year keys of a response: an observed year and a projection year
IMFYears == {"2024", "2030"}

\* the year -> value map of one country; JSON null for a missing figure
IMFYearData ==
    UNION {[K -> {None} \cup {Num(v) : v \in Values}] : K \in SUBSET IMFYears}

\* what requests.get gives for one indicator: a failure, or the JSON body's
\* country map; the DataMapper API also serves country groups (WEOWORLD)
IMFResponses ==
    {[ok |-> FALSE, values |-> EmptyDict], [ok |-> TRUE, values |-> EmptyDict]}
    \cup {[ok |-> TRUE, values |-> ("USA" :> yd)] : yd \in IMFYearData}
    \cup {[ok |-> TRUE, values |-> ("WEOWORLD" :> ("2024" :> Num(1)))]}

\* lines 98-102: the overwrite merge of one indicator's results
IMFMerge(store, results, field_name) ==
    [c \in (DOMAIN store) \cup (DOMAIN results) |->
        IF c \in DOMAIN results
        THEN DictUpdate(DictGetOr(store, c, EmptyDict),
                 (field_name :> results[c].value)
                 @@ (YearKey(field_name) :> results[c].year))
        ELSE store[c]]

\* no response fetched yet
NoResponse == [ok |-> FALSE, values |-> EmptyDict, none |-> TRUE]

IMFInit ==
    /\ imf_data = EmptyDict
    /\ imf_pc = "loop"
    /\ imf_i = 1
    /\ imf_resp = NoResponse
    /\ imf_disk \in {NoFile, JsonFile(EmptyDict)}

IMFIdle ==
    /\ imf_data = EmptyDict
    /\ imf_pc = "idle"
    /\ imf_i = 0
    /\ imf_resp = NoResponse
    /\ imf_disk = NoFile

\* lines 93-104: one indicator is fetched and merged
IMF_FetchAndMerge ==
    /\ imf_pc = "loop"
    /\ imf_i <= NumIndicators
    /\ \E resp \in IMFResponses :
          /\ imf_resp' = resp
          /\ imf_data' = IMFMerge(imf_data, fetch_indicator(resp),
                                  INDICATORS[imf_i].field_name)
    /\ imf_i' = imf_i + 1
    /\ UNCHANGED <<imf_pc, imf_disk>>

\* line 111: open(out_path, "w") truncates the file
IMF_OpenForWrite ==
    /\ imf_pc = "loop"
    /\ imf_i = NumIndicators + 1
    /\ imf_disk' = PartialFile
    /\ imf_pc' = "dump"
    /\ UNCHANGED <<imf_data, imf_i, imf_resp>>

\* line 111: open raises (the path is not writable)
IMF_OpenFails ==
    /\ imf_pc = "loop"
    /\ imf_i = NumIndicators + 1
    /\ imf_pc' = "raised_open"
    /\ UNCHANGED <<imf_data, imf_i, imf_disk, imf_resp>>

\* line 112: json.dump writes the whole store
IMF_Dump ==
    /\ imf_pc = "dump"
    /\ imf_disk' = JsonFile(imf_data)
    /\ imf_pc' = "sample"
    /\ UNCHANGED <<imf_data, imf_i, imf_resp>>

\* line 112: the write raises part-way (the disk is full)
IMF_DumpFails ==
    /\ imf_pc = "dump"
    /\ imf_pc' = "raised_dump"
    /\ UNCHANGED <<imf_data, imf_i, imf_disk, imf_resp>>

\* lines 118-121: the sample print, next(iter(imf_data.items()))
IMF_Sample ==
    /\ imf_pc = "sample"
    /\ imf_data # EmptyDict
    /\ imf_pc' = "done"
    /\ UNCHANGED <<imf_data, imf_i, imf_disk, imf_resp>>

\* line 118: next() on the iterator of an empty dict raises StopIteration
IMF_SampleRaises ==
    /\ imf_pc = "sample"
    /\ imf_data = EmptyDict
    /\ imf_pc' = "raised_sample"
    /\ UNCHANGED <<imf_data, imf_i, imf_disk, imf_resp>>

IMFNext ==
    \/ IMF_FetchAndMerge
    \/ IMF_OpenForWrite
    \/ IMF_OpenFails
    \/ IMF_Dump
    \/ IMF_DumpFails
    \/ IMF_Sample
    \/ IMF_SampleRaises

---------------------------------------------------------------------------
(* fetch_owid.py: extract_latest *)

\* the decimal digits of n >= 0, most significant first
RECURSIVE DigitsOf(_)
DigitsOf(n) == IF n < 10 THEN <<n>> ELSE Append(DigitsOf(n \div 10), n % 10)

\* the characters of a text made of digits; "" has none
TextDigits(s) == IF s = "" THEN << >> ELSE DigitsOf(YearOfText(s))

RECURSIVE SeqGreater(_, _)
SeqGreater(a, b) ==
    IF a = << >> THEN FALSE
    ELSE IF b = << >> THEN TRUE
    ELSE IF Head(a) # Head(b) THEN Head(a) > Head(b)
    ELSE SeqGreater(Tail(a), Tail(b))

\* a > b on two str of digits: Python compares str character by character
StrGreater(a, b) == SeqGreater(TextDigits(a), TextDigits(b))

\* line 175: the row's year replaces the year kept for the code
YearReplaces(year, kept) == StrGreater(year, kept)

\* lines 164-176: the body of the row loop
ExtractRowStep(result, row) ==
    LET iso3 == Upper(Strip(PyStr(row.iso))) IN
    IF iso3 = "" \/ Len(iso3) # 3 THEN result
    ELSE IF ~Truthy(row.val) \/ Strip(PyStr(row.val)) \in {"", "nan", "None"}
    THEN result
    ELSE LET f == PyFloat(row.val) IN
    IF ~f.ok THEN result
    ELSE LET year == Strip(PyStr(row.year)) IN
    IF iso3 \notin DOMAIN result \/ YearReplaces(year, result[iso3].year.s)
    THEN DictSet(result, iso3, [value |-> f.val, year |-> Str(year)])
    ELSE result

RECURSIVE ExtractLoop(_, _)
ExtractLoop(result, rows) ==
    IF rows = << >> THEN result
    ELSE ExtractLoop(ExtractRowStep(result, Head(rows)), Tail(rows))

\* lines 161-177
extract_latest(rows) == ExtractLoop(EmptyDict, rows)

\* the rows csv.DictReader gives: texts under the code, year and value
\* columns; a year of three digits, as in long historical series
OwidRows ==
    {[iso |-> i, year |-> y, val |-> v] :
        i \in {Str("USA"), Str("World")},
        y \in {Str("730"), Str("2023"), Str("2024")},
        v \in {Str(""), Str("5"), Str("7")}}

OwidSheets == SeqsUpTo(OwidRows, MaxSheetRows)

\* rows of one code and one year whose value is a number or one of the
\* texts a source writes for "no value"
OwidValueRows ==
    {[iso |-> Str("USA"), year |-> Str("2023"), val |-> v] :
        v \in {Str("5"), Str(""), Str("nan"), Str("NaN"), Str("None")}}

OwidValueSheets == SeqsUpTo(OwidValueRows, MaxSheetRows)

---------------------------------------------------------------------------
(* fet_UN_data.py: find_header_row and map_columns *)

\* `needle in hay` on the lower-cased header texts and keywords of the model
SubstringPairs ==
    {<<"iso3 alpha-code", "iso3">>,
     <<"ISO3 Alpha-code", "ISO3">>,
     <<"total births per year", "total">>,
     <<"total births per year", "year">>,
     <<"dependency ratio (0-14 and 65+ per 15-64)", "dependency">>,
     <<"dependency ratio (0-14 and 65+ per 15-64)", "0-14">>,
     <<"dependency ratio (0-14 and 65+ per 15-64)", "65">>,
     <<"dependency ratio (0-14 and 65+ per 15-64)", "15-64">>,
     <<"65+", "65">>}

Contains(hay, needle) == hay = needle \/ <<hay, needle>> \in SubstringPairs

\* all_rows[:25]
HeaderScanLimit == 25

\* a scan that takes the first row with any text as the header row
RowHasISO3_AnyCell(row) == \E k \in DOMAIN row : Truthy(row[k])

\* lines 105-106: the row's joined text contains ISO3; the needle has no
\* blank, so it lies inside one of the joined cells
RowHasISO3(row) ==
    \E k \in DOMAIN row :
        /\ Truthy(row[k])
        /\ \/ Contains(PyStr(row[k]), "ISO3")
           \/ Contains(Lower(PyStr(row[k])), "iso3")

\* lines 102-108: the 0-based index of the header row, None when not found
find_header_row(all_rows) ==
    LET scanned == {i \in 1 .. Len(all_rows) : i <= HeaderScanLimit}
        hits    == {i \in scanned : RowHasISO3(all_rows[i])}
    IN IF hits = {} THEN None
       ELSE Num((CHOOSE i \in hits : \A j \in hits : i <= j) - 1)

\* the "columns" lists of FILES: Population Data, Deaths by Age, Births by Age
COLUMN_MAPS ==
    {<< <<"ISO3", "_ISO3_">>, <<"Year", "_YEAR_">>,
        <<"0-14", "popAge0to14">>, <<"15-64", "popAge15to64">>,
        <<"65", "popAge65plus">>, <<"Dependency", "dependencyRatio">> >>,
     << <<"ISO3", "_ISO3_">>, <<"Year", "_YEAR_">>,
        <<"Neonatal", "neonateMortality">>,
        <<"Under age 1", "neonateMortality">> >>,
     << <<"ISO3", "_ISO3_">>, <<"Year", "_YEAR_">>,
        <<"Total", "totalBirths">>, <<"15-19", "birthsAge15to19">>,
        <<"Adolescent", "adolBirthRate">> >>}

\* line 133: a field is given a column only while it has none
NotYetMapped_Never(field_cols, field_name) == TRUE

NotYetMapped(field_cols, field_name) == field_name \notin DOMAIN field_cols

\* lines 122-134: one (keyword, field_name) pair tried on one header cell;
\* acc is (iso3_col, year_col, field_cols)
PairStep(acc, col_i, cell_str, pair) ==
    IF ~Contains(Lower(cell_str), Lower(pair[1])) THEN acc
    ELSE IF pair[2] = "_ISO3_"
         THEN IF acc.iso3_col = NoCol THEN [acc EXCEPT !.iso3_col = col_i]
              ELSE acc
    ELSE IF pair[2] = "_YEAR_"
         THEN IF acc.year_col = NoCol THEN [acc EXCEPT !.year_col = col_i]
              ELSE acc
    ELSE IF NotYetMapped(acc.field_cols, pair[2])
         THEN [acc EXCEPT !.field_cols = DictSet(@, pair[2], col_i)]
         ELSE acc

RECURSIVE PairLoop(_, _, _, _)
PairLoop(acc, col_i, cell_str, pairs) ==
    IF pairs = << >> THEN acc
    ELSE PairLoop(PairStep(acc, col_i, cell_str, Head(pairs)),
                  col_i, cell_str, Tail(pairs))

\* lines 117-134: the loop over the header cells, col_i counted from 0
RECURSIVE CellLoop(_, _, _, _)
CellLoop(acc, col_i, header_row, column_map) ==
    IF col_i >= Len(header_row) THEN acc
    ELSE LET cell == header_row[col_i + 1] IN
         CellLoop(IF cell = None THEN acc
                  ELSE PairLoop(acc, col_i, Strip(PyStr(cell)), column_map),
                  col_i + 1, header_row, column_map)

\* lines 111-136
map_columns(header_row, column_map) ==
    CellLoop([iso3_col |-> NoCol, year_col |-> NoCol, field_cols |-> EmptyDict],
             0, header_row, column_map)

\* the cells of a header row
HeaderCells ==
    {None, Str("ISO3 Alpha-code"), Str("Year"), Str("Neonatal"),
     Str("Under age 1"), Str("Total births per year"),
     Str("Dependency ratio (0-14 and 65+ per 15-64)"), Str("65+")}

\* a header row has at most this many cells
MaxHeaderCells == 3

HeaderRows == SeqsUpTo(HeaderCells, MaxHeaderCells)

\* rows above the header row of a sheet: at most this many
MaxPadRows == 26

\* a title or notes row
UNNotesRow == <<Str("Notes"), None, None>>

\* a header row, a notes row and a data row of a UN sheet
UNScanRows ==
    {<<Str("Index"), Str("ISO3 Alpha-code"), Str("Year")>>,
     UNNotesRow,
     <<Num(1), Str("USA"), Num(2024)>>}

\* sheets for the header scan: k notes rows, then up to two more rows
UNScanSheets ==
    {[i \in 1 .. k |-> UNNotesRow] \o tail :
        k \in 0 .. MaxPadRows, tail \in SeqsUpTo(UNScanRows, 2)}

\* lines 158-173 of read_file: the header row is looked for and its columns
\* are mapped; read_file returns {} when there is no header row or no ISO3
\* column
ReadFileHeader(all_rows, column_map) ==
    LET header_idx == find_header_row(all_rows) IN
    IF header_idx = None
    THEN [outcome |-> "Header row not found", header_idx |-> None,
          cols |-> None]
    ELSE LET cols == map_columns(all_rows[header_idx.n + 1], column_map) IN
         [outcome    |-> IF cols.iso3_col = NoCol THEN "ISO3 column not found"
                         ELSE "mapped",
          header_idx |-> header_idx,
          cols       |-> cols]

\* the cells of the first rows of a sheet: empty, a number, a title, the
\* ISO3 heading as the UN files write it and in lower case, the Year heading
ScanCells ==
    {None, Str(""), Num(1), Str("Notes"), Str("ISO3 Alpha-code"),
     Str("iso3"), Str("Year")}

\* sheets for read_file's header step: no row or a notes row, then one row
\* of any cells
UNHeaderSheets ==
    {pad \o <<row>> :
        pad \in {<< >>, <<UNNotesRow>>},
        row \in SeqsUpTo(ScanCells, MaxHeaderCells)}

---------------------------------------------------------------------------
(* fetch_sipri.py: parse_sheet, the search for the header row *)

\* line 184: v.isdigit() and len(v) == 4
IsYearToken(v) == Len(v) = 4 /\ \E n \in ParseRange : StrOfInt(n) = v

\* line 183: the stripped cell texts of a row that are not empty
RowVals(row) == {Strip(PyStr(row[k])) : k \in DOMAIN row} \ {""}

\* line 184: the row is taken as the header row
SipriRowQualifies(row) ==
    \/ "Country" \in RowVals(row)
    \/ \E v \in RowVals(row) : IsYearToken(v)

\* lines 181-190: the 0-based index of the header row, None when no row of
\* the sheet qualifies (parse_sheet then returns {})
SipriHeaderRow(rows) ==
    LET hits == {i \in 1 .. Len(rows) : SipriRowQualifies(rows[i])}
    IN IF hits = {} THEN None
       ELSE Num((CHOOSE i \in hits : \A j \in hits : i <= j) - 1)

\* a title or notes row; an empty cell is read as nan
SipriNotesRow == <<Str("Notes"), NaN, NaN>>

\* the header row, a notes row, a notes row with a year in one cell
SipriScanRows ==
    {<<Str("Country"), Num(2023), Num(2024)>>,
     SipriNotesRow,
     <<Str("Notes"), Str("2024"), NaN>>}

SipriScanSheets ==
    {[i \in 1 .. k |-> SipriNotesRow] \o tail :
        k \in 0 .. MaxPadRows, tail \in SeqsUpTo(SipriScanRows, 2)}

---------------------------------------------------------------------------
(* the functions run on their own: one call, on one input *)

CallInit ==
    /\ call_done = FALSE
    /\ call_out = None
    /\ \/ call_fn = "extract_latest" /\ call_in \in OwidSheets
       \/ call_fn = "find_header_row" /\ call_in \in UNScanSheets
       \/ /\ call_fn = "country_to_iso3"
          /\ call_in \in {[name |-> n, lib |-> l] :
                              n \in ResolverNames, l \in ResolverLibs}
       \/ call_fn = "parse_sheet_header" /\ call_in \in SipriScanSheets
       \/ /\ call_fn = "map_columns"
          /\ call_in \in {[header_row |-> h, column_map |-> m] :
                              h \in HeaderRows, m \in COLUMN_MAPS}
       \/ /\ call_fn = "parse_sheet_rows"
          /\ call_in \in {[rows |-> r, year_cols |-> y, sheet |-> sh] :
                              r \in SipriDupSheets, y \in SipriYearCols,
                              sh \in SHEETS}
       \/ /\ call_fn = "read_file_header"
          /\ call_in \in {[all_rows |-> a, column_map |-> m] :
                              a \in UNHeaderSheets, m \in COLUMN_MAPS}

CallIdle ==
    /\ call_fn = "none"
    /\ call_in = None
    /\ call_out = None
    /\ call_done = FALSE

Call_extract_latest ==
    /\ call_fn = "extract_latest"
    /\ ~call_done
    /\ call_out' = extract_latest(call_in)
    /\ call_done' = TRUE
    /\ UNCHANGED <<call_fn, call_in>>

Call_find_header_row ==
    /\ call_fn = "find_header_row"
    /\ ~call_done
    /\ call_out' = find_header_row(call_in)
    /\ call_done' = TRUE
    /\ UNCHANGED <<call_fn, call_in>>

Call_map_columns ==
    /\ call_fn = "map_columns"
    /\ ~call_done
    /\ call_out' = map_columns(call_in.header_row, call_in.column_map)
    /\ call_done' = TRUE
    /\ UNCHANGED <<call_fn, call_in>>

Call_read_file_header ==
    /\ call_fn = "read_file_header"
    /\ ~call_done
    /\ call_out' = ReadFileHeader(call_in.all_rows, call_in.column_map)
    /\ call_done' = TRUE
    /\ UNCHANGED <<call_fn, call_in>>

Call_parse_sheet_rows ==
    /\ call_fn = "parse_sheet_rows"
    /\ ~call_done
    /\ call_out' = ParseRows(call_in.rows, call_in.year_cols, call_in.sheet)
    /\ call_done' = TRUE
    /\ UNCHANGED <<call_fn, call_in>>

Call_parse_sheet_header ==
    /\ call_fn = "parse_sheet_header"
    /\ ~call_done
    /\ call_out' = SipriHeaderRow(call_in)
    /\ call_done' = TRUE
    /\ UNCHANGED <<call_fn, call_in>>

Call_country_to_iso3 ==
    /\ call_fn = "country_to_iso3"
    /\ ~call_done
    /\ call_out' = ResolveName(call_in.name, call_in.lib)
    /\ call_done' = TRUE
    /\ UNCHANGED <<call_fn, call_in>>

CallNext ==
    \/ Call_extract_latest
    \/ Call_country_to_iso3
    \/ Call_parse_sheet_header
    \/ Call_find_header_row
    \/ Call_map_columns
    \/ Call_read_file_header
    \/ Call_parse_sheet_rows

---------------------------------------------------------------------------
(* fetch_owid.py: store and main *)

\* lines 27-51: the ENERGY_FIELDS entry of the model
ENERGY_FIELDS ==
    <<[column |-> "solar_electricity", field_name |-> "solarElec"]>>

\* lines 55-119: the CHART_INDICATORS entries of the model, one with a single
\* slug and one with a fallback slug
CHART_INDICATORS ==
    <<[field_name |-> "diabetesRate",
       slugs      |-> <<"diabetes-prevalence">>],
      [field_name |-> "alcoholConsump",
       slugs      |-> <<"total-alcohol-consumption-per-capita",
                        "alcohol-consumption-per-person">>]>>

NumChartIndicators == Len(CHART_INDICATORS)

\* lines 180-184: every extracted entry is written over the store's; the
\* number of extracted entries is returned
store(data, extracted, field_name) ==
    [data |-> [c \in (DOMAIN data) \cup (DOMAIN extracted) |->
                  IF c \in DOMAIN extracted
                  THEN DictUpdate(DictGetOr(data, c, EmptyDict),
                           (field_name :> extracted[c].value)
                           @@ (YearKey(field_name) :> extracted[c].year))
                  ELSE data[c]],
     n    |-> Cardinality(DOMAIN extracted)]

\* the rows of a chart CSV: one code and one year, a value or none
OwidChartRows ==
    {[iso |-> Str("USA"), year |-> Str("2023"), val |-> Str(v)] :
        v \in {"5", "7", ""}}

\* what fetch_url gives, with whether find_col / auto_val_col find the code
\* and value columns among its field names; a failed request gives no rows
\* (lines 123-140)
OwidResponses ==
    {[rows |-> r, cols |-> b] :
        r \in SeqsUpTo(OwidChartRows, MaxSheetRows), b \in BOOLEAN}

\* line 261 taken for line 245 too: every fetched CSV counts
SlugYields_Always(extracted) == TRUE

\* line 261: if extracted
SlugYields(extracted) == extracted # EmptyDict

\* lines 245-261: the slug's CSV is fetched, has the columns and gives an
\* extraction that is stored
SlugStores(resp) ==
    /\ resp.rows # << >>
    /\ resp.cols
    /\ SlugYields(extract_latest(resp.rows))

\* what extract_latest was given to return for the response, {} when it was
\* not called
SlugExtracted(resp) ==
    IF resp.rows # << >> /\ resp.cols THEN extract_latest(resp.rows)
    ELSE EmptyDict

\* the stored file: none, an empty store, or a store that has the first
\* chart indicator of one country
OwidInitStores ==
    {EmptyDict,
     "USA" :> ((CHART_INDICATORS[1].field_name :> Num(5))
               @@ (YearKey(CHART_INDICATORS[1].field_name) :> Str("2023")))}

OwidInit ==
    /\ owid_disk \in {NoFile} \cup {JsonFile(st) : st \in OwidInitStores}
    /\ owid_data = EmptyDict
    /\ owid_loaded = EmptyDict
    /\ owid_pc = "start"
    /\ owid_i = 1
    /\ owid_j = 1
    /\ owid_found = FALSE
    /\ owid_success = 0
    /\ owid_failed = << >>
    /\ owid_n = None
    /\ owid_log = << >>

OwidIdle ==
    /\ owid_disk = NoFile
    /\ owid_data = EmptyDict
    /\ owid_loaded = EmptyDict
    /\ owid_pc = "idle"
    /\ owid_i = 1
    /\ owid_j = 1
    /\ owid_found = FALSE
    /\ owid_success = 0
    /\ owid_failed = << >>
    /\ owid_n = None
    /\ owid_log = << >>

\* lines 196-203
Owid_Load ==
    /\ owid_pc = "start"
    /\ owid_data' = IF owid_disk = NoFile THEN EmptyDict ELSE owid_disk.data
    /\ owid_loaded' = owid_data'
    /\ owid_pc' = "energy"
    /\ UNCHANGED <<owid_disk, owid_i, owid_j, owid_found, owid_success,
                   owid_failed, owid_n, owid_log>>

\* lines 210-230: the bulk energy CSV; its fields are stored when the CSV is
\* fetched and has the columns
Owid_Energy ==
    /\ owid_pc = "energy"
    /\ \E resp \in OwidResponses :
          IF resp.rows # << >> /\ resp.cols
          THEN LET st == store(owid_data, extract_latest(resp.rows),
                               ENERGY_FIELDS[1].field_name)
               IN /\ owid_data' = st.data
                  /\ owid_n' = Num(st.n)
          ELSE UNCHANGED <<owid_data, owid_n>>
    /\ owid_pc' = "charts"
    /\ UNCHANGED <<owid_loaded, owid_disk, owid_i, owid_j, owid_found,
                   owid_success, owid_failed, owid_log>>

\* lines 244-258, 261, 268: the slug's CSV is not fetched, lacks a column or
\* gives an empty extraction; the loop goes on to the next slug
Owid_SlugSkipped ==
    /\ owid_pc = "charts"
    /\ owid_i <= NumChartIndicators
    /\ ~owid_found
    /\ owid_j <= Len(CHART_INDICATORS[owid_i].slugs)
    /\ \E resp \in OwidResponses :
          /\ ~SlugStores(resp)
          /\ owid_log' = Append(owid_log,
                            [field     |-> CHART_INDICATORS[owid_i].field_name,
                             slug      |-> CHART_INDICATORS[owid_i].slugs[owid_j],
                             extracted |-> SlugExtracted(resp)])
    /\ owid_j' = owid_j + 1
    /\ UNCHANGED <<owid_data, owid_loaded, owid_disk, owid_pc, owid_i,
                   owid_found, owid_success, owid_failed, owid_n>>

\* lines 244-266: the extraction of the slug's CSV is stored and the slug
\* loop is left
Owid_SlugStored ==
    /\ owid_pc = "charts"
    /\ owid_i <= NumChartIndicators
    /\ ~owid_found
    /\ owid_j <= Len(CHART_INDICATORS[owid_i].slugs)
    /\ \E resp \in OwidResponses :
          /\ SlugStores(resp)
          /\ LET st == store(owid_data, extract_latest(resp.rows),
                             CHART_INDICATORS[owid_i].field_name)
             IN /\ owid_data' = st.data
                /\ owid_n' = Num(st.n)
          /\ owid_log' = Append(owid_log,
                            [field     |-> CHART_INDICATORS[owid_i].field_name,
                             slug      |-> CHART_INDICATORS[owid_i].slugs[owid_j],
                             extracted |-> SlugExtracted(resp)])
    /\ owid_success' = owid_success + 1
    /\ owid_found' = TRUE
    /\ UNCHANGED <<owid_loaded, owid_disk, owid_pc, owid_i, owid_j,
                   owid_failed>>

\* lines 270-274, 240-242: after the slug loop; the indicator is recorded as
\* failed when no slug was stored, and the next indicator is taken
Owid_NextIndicator ==
    /\ owid_pc = "charts"
    /\ owid_i <= NumChartIndicators
    /\ owid_found \/ owid_j > Len(CHART_INDICATORS[owid_i].slugs)
    /\ owid_failed' = IF owid_found THEN owid_failed
                      ELSE Append(owid_failed,
                                  CHART_INDICATORS[owid_i].field_name)
    /\ owid_i' = owid_i + 1
    /\ owid_j' = 1
    /\ owid_found' = FALSE
    /\ UNCHANGED <<owid_data, owid_loaded, owid_disk, owid_pc, owid_success,
                   owid_n, owid_log>>

\* lines 277-278
Owid_Save ==
    /\ owid_pc = "charts"
    /\ owid_i = NumChartIndicators + 1
    /\ owid_disk' = JsonFile(owid_data)
    /\ owid_pc' = "done"
    /\ UNCHANGED <<owid_data, owid_loaded, owid_i, owid_j, owid_found,
                   owid_success, owid_failed, owid_n, owid_log>>

OwidNext ==
    \/ Owid_Load
    \/ Owid_Energy
    \/ Owid_SlugSkipped
    \/ Owid_SlugStored
    \/ Owid_NextIndicator
    \/ Owid_Save

---------------------------------------------------------------------------
(* fetch_unesco.py: get_zip *)

\* lines 36-41
RELEASE_SLUGS == <<"202509", "202504", "202409", "202404">>

\* the bytes of a body: its first two bytes and the rest; two ZIP archives
\* and an HTML page
ZipPayloads ==
    {[magic |-> "PK", rest |-> "a"], [magic |-> "PK", rest |-> "b"],
     [magic |-> "<!", rest |-> "c"]}

\* what requests.get gives for a slug: status 404, a failure (no connection,
\* a timeout, another error status, a broken download), or a body
ZipResponses ==
    {[status |-> "404"], [status |-> "error"]}
    \cup {[status |-> "200", data |-> d] : d \in ZipPayloads}

\* line 131 left out: every body is taken
IsZip_Any(data) == TRUE

\* line 131: data[:2] == b"PK"
IsZip(data) == data.magic = "PK"

ZipInit ==
    /\ zip_cache \in {None} \cup ZipPayloads
    /\ zip_pc = "start"
    /\ zip_j = 1
    /\ zip_ret = None
    /\ zip_log = << >>

ZipIdle ==
    /\ zip_cache = None
    /\ zip_pc = "idle"
    /\ zip_j = 1
    /\ zip_ret = None
    /\ zip_log = << >>

\* lines 105-108: the cache file exists and its bytes are returned
Zip_CacheHit ==
    /\ zip_pc = "start"
    /\ zip_cache # None
    /\ zip_ret' = zip_cache
    /\ zip_pc' = "done"
    /\ UNCHANGED <<zip_cache, zip_j, zip_log>>

\* line 105: no cache file, the slug loop is entered
Zip_CacheMiss ==
    /\ zip_pc = "start"
    /\ zip_cache = None
    /\ zip_pc' = "slugs"
    /\ UNCHANGED <<zip_cache, zip_j, zip_ret, zip_log>>

\* one pass of the slug loop that goes on to the next slug, the request
\* having given resp
ZipSlugContinues(resp) ==
    /\ zip_pc = "slugs"
    /\ zip_j <= Len(RELEASE_SLUGS)
    /\ zip_log' = Append(zip_log, [slug |-> RELEASE_SLUGS[zip_j], resp |-> resp])
    /\ zip_j' = zip_j + 1
    /\ UNCHANGED <<zip_cache, zip_pc, zip_ret>>

\* lines 114-116
Zip_Slug404 == ZipSlugContinues([status |-> "404"])

\* lines 113-128, 140-142: the request or the download raises
Zip_SlugError == ZipSlugContinues([status |-> "error"])

\* lines 131-133: the body is not a ZIP archive
Zip_SlugNotZip ==
    \E d \in ZipPayloads :
        /\ ~IsZip(d)
        /\ ZipSlugContinues([status |-> "200", data |-> d])

\* lines 131-138: the body is a ZIP archive; it is written to the cache file
\* and returned
Zip_SlugCached ==
    /\ zip_pc = "slugs"
    /\ zip_j <= Len(RELEASE_SLUGS)
    /\ \E d \in ZipPayloads :
          /\ IsZip(d)
          /\ zip_log' = Append(zip_log,
                           [slug |-> RELEASE_SLUGS[zip_j],
                            resp |-> [status |-> "200", data |-> d]])
          /\ zip_cache' = d
          /\ zip_ret' = d
    /\ zip_pc' = "done"
    /\ UNCHANGED zip_j

\* lines 144-149: every slug failed
Zip_AllFailed ==
    /\ zip_pc = "slugs"
    /\ zip_j = Len(RELEASE_SLUGS) + 1
    /\ zip_ret' = None
    /\ zip_pc' = "done"
    /\ UNCHANGED <<zip_cache, zip_j, zip_log>>

ZipNext ==
    \/ Zip_CacheHit
    \/ Zip_CacheMiss
    \/ Zip_Slug404
    \/ Zip_SlugError
    \/ Zip_SlugNotZip
    \/ Zip_SlugCached
    \/ Zip_AllFailed

---------------------------------------------------------------------------
(* the two merging scripts: one of them is run *)

MergeInit ==
    \/ UNInit /\ UnescoIdle /\ RFIdle /\ SipriIdle /\ IMFIdle /\ CallIdle
       /\ OwidIdle /\ ZipIdle
    \/ UnescoInit /\ UNIdle /\ RFIdle /\ SipriIdle /\ IMFIdle /\ CallIdle
       /\ OwidIdle /\ ZipIdle

MergeNext ==
    \/ UNNext /\ UNCHANGED <<unescoVars, rfVars, sipriVars, imfVars, callVars,
                    owidVars, zipVars>>
    \/ UnescoNext /\ UNCHANGED <<unVars, rfVars, sipriVars, imfVars, callVars,
                    owidVars, zipVars>>

SpecMerge == MergeInit /\ [][MergeNext]_vars

---------------------------------------------------------------------------
(* Claims on the fill-only merge and on main of fet_UN_data.py *)

\* the (country, key) slots of a store or of a source map
Slots(m) == UNION {{<<e, k>> : k \in DOMAIN m[e]} : e \in DOMAIN m}

SlotValue(m, p) == m[p[1]][p[2]]

\* the slot holds a value other than null
NonNull(m, p) == p \in Slots(m) /\ SlotValue(m, p) # None

\* fetch_unesco.main is at the step whose results are merged fill-only
InOpriStep ==
    /\ unesco_pc = "steps"
    /\ unesco_step <= NumUnescoSteps
    /\ UnescoSteps[unesco_step].zip_name = "OPRI"

\* C1: once the store holds a non-null value for a country and a key, no
\* step of the fill-only merge changes it: the value merged first stays.
C1_FillOnlyMonotone ==
    [][/\ \A p \in Slots(un_data) :
            NonNull(un_data, p) =>
                /\ p \in Slots(un_data')
                /\ SlotValue(un_data', p) = SlotValue(un_data, p)
       /\ InOpriStep =>
            \A p \in Slots(unesco_data) :
                NonNull(unesco_data, p) =>
                    /\ p \in Slots(unesco_data')
                    /\ SlotValue(unesco_data', p) = SlotValue(unesco_data, p)]_vars

\* C1 witness: a merge has written a value, and the next file offers another
\* value for a slot the store already fills.
C1_Witness ==
    /\ un_pc = "loop"
    /\ total_merged > 0
    /\ \E src \in SourceMaps : \E p \in Slots(src) :
          /\ NonNull(un_data, p)
          /\ SlotValue(src, p) # SlotValue(un_data, p)

\* C2: merging a source map a second time leaves the store as the first
\* merge left it and counts no merged value, from every reachable store and
\* for every map read_file can return.
C2_FillOnlyIdempotent ==
    un_pc = "loop" => \A src \in SourceMaps :
        LET once == MergeStore(un_data, src) IN
        /\ MergeStore(once, src) = once
        /\ MergeCount(once, src) = 0

\* C2 witness: a store reached by a merge on which some source map's first
\* merge does add values.
C2_Witness ==
    /\ un_pc = "loop"
    /\ total_merged > 0
    /\ \E src \in SourceMaps :
          /\ MergeCount(un_data, src) > 0
          /\ MergeStore(un_data, src) # un_data

\* a stored value that is present but falsy: 0 or ""
FalsySlots(m) == {p \in Slots(m) : SlotValue(m, p) \in {Num(0), Str("")}}

\* C3: a stored 0 (or "") counts as present: no merge replaces it, and the
\* merge counts at most the offered slots that do not hold such a value.
C3_ZeroIsPresent ==
    /\ un_pc = "loop" => \A src \in SourceMaps :
          LET after == MergeStore(un_data, src) IN
          /\ \A p \in FalsySlots(un_data) :
                p \in Slots(after) /\ SlotValue(after, p) = SlotValue(un_data, p)
          /\ MergeCount(un_data, src)
                <= Cardinality(Slots(src) \ FalsySlots(un_data))
    /\ InOpriStep => \A results \in ProcessCsvResults[unesco_step] :
          LET after == UnescoMerge(unesco_data, results, "OPRI") IN
          \A p \in FalsySlots(unesco_data) :
              p \in Slots(after) /\ SlotValue(after, p) = SlotValue(unesco_data, p)

\* C3 witness: the store holds a 0 and the file being read offers a non-zero
\* value for that slot.
C3_Witness ==
    /\ un_pc = "loop"
    /\ un_i <= NumFiles
    /\ \E src \in ReadFileResults[un_i] : \E p \in Slots(src) :
          /\ p \in FalsySlots(un_data)
          /\ SlotValue(un_data, p) = Num(0)
          /\ SlotValue(src, p) \notin {Num(0), None}

\* C4: a source that fails contributes nothing and main still runs every
\* later FILES entry and writes the store: main never ends on a source's
\* failure with entries unprocessed or the store unwritten.
C4_FailureIsolation ==
    un_pc \in {"done", "raised_read_file"} =>
        /\ un_i = NumFiles + 1
        /\ un_disk = JsonFile(un_data)

\* C6: the store file is written fully or not at all: when the write fails,
\* the file still holds the store that was loaded.
C6_AtomicPersist ==
    un_pc \in {"raised_open", "raised_dump"} => un_disk = JsonFile(un_loaded)

---------------------------------------------------------------------------
(* read_file and parse_sheet, each run on a sheet of its own, and the IMF *)
(* fetcher run on the responses of the API                                *)

ExtractInit ==
    \/ RFInit /\ UNIdle /\ UnescoIdle /\ SipriIdle /\ IMFIdle /\ CallIdle
       /\ OwidIdle /\ ZipIdle
    \/ SipriInit /\ UNIdle /\ UnescoIdle /\ RFIdle /\ IMFIdle /\ CallIdle
       /\ OwidIdle /\ ZipIdle
    \/ IMFInit /\ UNIdle /\ UnescoIdle /\ RFIdle /\ SipriIdle /\ CallIdle
       /\ OwidIdle /\ ZipIdle
    \/ /\ call_fn = "extract_latest"
       /\ call_in \in OwidValueSheets
       /\ call_out = None
       /\ call_done = FALSE
       /\ UNIdle /\ UnescoIdle /\ RFIdle /\ SipriIdle /\ IMFIdle
       /\ OwidIdle /\ ZipIdle

ExtractNext ==
    \/ RFNext /\ UNCHANGED <<unVars, unescoVars, sipriVars, imfVars, callVars,
                    owidVars, zipVars>>
    \/ SipriNext /\ UNCHANGED <<unVars, unescoVars, rfVars, imfVars, callVars,
                    owidVars, zipVars>>
    \/ IMFNext /\ UNCHANGED <<unVars, unescoVars, rfVars, sipriVars, callVars,
                    owidVars, zipVars>>
    \/ /\ Call_extract_latest
       /\ UNCHANGED <<unVars, unescoVars, rfVars, sipriVars, imfVars,
                    owidVars, zipVars>>

SpecExtract == ExtractInit /\ [][ExtractNext]_vars

CallsInit ==
    CallInit /\ UNIdle /\ UnescoIdle /\ RFIdle /\ SipriIdle /\ IMFIdle
       /\ OwidIdle /\ ZipIdle

CallsNext ==
    CallNext /\ UNCHANGED <<unVars, unescoVars, rfVars, sipriVars, imfVars,
                    owidVars, zipVars>>

SpecCalls == CallsInit /\ [][CallsNext]_vars

---------------------------------------------------------------------------
(* the two fetchers with fallback slugs: main of fetch_owid.py, or one call *)
(* of get_zip                                                              *)

FetchInit ==
    \/ OwidInit /\ ZipIdle
       /\ UNIdle /\ UnescoIdle /\ RFIdle /\ SipriIdle /\ IMFIdle /\ CallIdle
    \/ ZipInit /\ OwidIdle
       /\ UNIdle /\ UnescoIdle /\ RFIdle /\ SipriIdle /\ IMFIdle /\ CallIdle

FetchNext ==
    \/ OwidNext /\ UNCHANGED <<unVars, unescoVars, rfVars, sipriVars, imfVars,
                               callVars, zipVars>>
    \/ ZipNext /\ UNCHANGED <<unVars, unescoVars, rfVars, sipriVars, imfVars,
                              callVars, owidVars>>

SpecFetch == FetchInit /\ [][FetchNext]_vars

\* both are sequential programs whose requests time out: a step that can be
\* taken is taken
SpecFetchLive == SpecFetch /\ WF_vars(FetchNext)

---------------------------------------------------------------------------
(* Claims on read_file *)

\* the country code read_file takes from a row, "" when the row is skipped
\* for its ISO3 cell
RFCode(row) ==
    IF Truthy(row[1]) /\ Len(Strip(PyStr(row[1]))) = 3
    THEN Upper(Strip(PyStr(row[1]))) ELSE ""

\* the rows of country c whose year is not above the cutoff and whose data
\* cell is a number: the valid observations of c
RFValid(c) ==
    {i \in 1 .. Len(rf_rows) :
        /\ RFCode(rf_rows[i]) = c
        /\ RowYear(rf_rows[i], rf_hdr.year_col).yr_int <= UNCutoff
        /\ IsNum(rf_rows[i][3])}

RFYearInt(i) == RowYear(rf_rows[i], rf_hdr.year_col).yr_int

\* the valid observations of c with the highest year
RFLatest(c) ==
    {i \in RFValid(c) : \A j \in RFValid(c) : RFYearInt(j) <= RFYearInt(i)}

\* the rows of country c carry a year whenever the sheet has a Year column
RFDated(c) ==
    \/ rf_hdr.year_col = NoCol
    \/ \A i \in 1 .. Len(rf_rows) :
          RFCode(rf_rows[i]) = c => rf_rows[i][2] # None

\* C9: per country, read_file returns the value (and year) of a valid
\* observation with the highest year, whatever the order of the rows.
C9_MostRecentValid ==
    RFDone =>
        \A c \in {"USA"} :
            (RFDated(c) /\ RFValid(c) # {}) =>
                /\ c \in DOMAIN rf_acc.result
                /\ RFField \in DOMAIN rf_acc.result[c]
                /\ \E i \in RFLatest(c) :
                      /\ rf_acc.result[c][RFField] = rf_rows[i][3]
                      /\ rf_acc.result[c][YearKey(RFField)]
                            = Str(RowYear(rf_rows[i], rf_hdr.year_col).year)

\* the rows of country c that pass the cutoff, with or without a value
RFKept(c) ==
    {i \in 1 .. Len(rf_rows) :
        RFCode(rf_rows[i]) = c /\ RFYearInt(i) <= UNCutoff}

\* C10: with a Year column, of two rows of one country that carry the same
\* year (the country's highest), the first in source order gives the field
\* value and the later one does not replace it.
C10_TieKeepsFirst ==
    (RFDone /\ rf_hdr.year_col # NoCol) =>
        \A c \in {"USA"} : \A i, j \in RFValid(c) :
            (/\ i < j
             /\ rf_rows[i][2] # None
             /\ rf_rows[j][2] = rf_rows[i][2]
             /\ \A k \in RFKept(c) : RFYearInt(k) <= RFYearInt(i)
             /\ \A k \in RFValid(c) : k >= i)
            => /\ c \in DOMAIN rf_acc.result
               /\ RFField \in DOMAIN rf_acc.result[c]
               /\ rf_acc.result[c][RFField] = rf_rows[i][3]

---------------------------------------------------------------------------
(* Claim on main of fetch_imf_data.py *)

\* C5: whatever each fetch gives, every one failing or giving no data
\* included, main ends either on a failure of the write or normally with the
\* store written: nothing else ends it with an uncaught error.
C5_OnlyPersistFatal ==
    imf_pc \in {"done", "raised_sample"} =>
        /\ imf_pc = "done"
        /\ imf_disk = JsonFile(imf_data)

---------------------------------------------------------------------------
(* Claims on parse_sheet *)

\* a cell that holds a valid number: its text reads as a finite number
C7ValidCell(cell) ==
    LET f == FloatOfText(RemoveCommas(PyStr(cell))) IN f.ok /\ IsNum(f.val)

C7Number(cell) == FloatOfText(RemoveCommas(PyStr(cell))).val.n

\* C7: for a country row, parse_sheet records the value (times the sheet's
\* multiplier) and the year of the highest year column whose cell is a valid
\* number, passing over placeholder and non-numeric cells; a row with no
\* such cell leaves the result as it was.  With columns 2019, 2021, 2020 and
\* cells 5, "...", 7 the row gives (7, "2020").
C7_WideRowSelection ==
    [][ps_n' = ps_n + 1 =>
        LET row   == ps_row'
            iso3  == RowIso3(row)
            valid == {i \in DOMAIN ps_year_cols : C7ValidCell(row.cells[i])}
        IN iso3 # None =>
            IF valid = {} THEN ps_acc'.result = ps_acc.result
            ELSE LET i == CHOOSE i \in valid :
                              \A j \in valid : ps_year_cols[j] <= ps_year_cols[i]
                 IN /\ iso3.s \in DOMAIN ps_acc'.result
                    /\ ps_acc'.result[iso3.s][ps_sheet.field_name]
                          = Num(C7Number(row.cells[i]) * ps_sheet.multiply_by)
                    /\ ps_acc'.result[iso3.s][YearKey(ps_sheet.field_name)]
                          = Str(StrOfInt(ps_year_cols[i]))
      ]_vars

---------------------------------------------------------------------------
(* Claim on the three temporal selections *)

\* the years recorded in a field map {country: {field: v, field_year: y}}
RecordedYears(m) ==
    UNION {{YearOfText(m[c][k].s) :
                k \in {YearKey(RFField), YearKey("gdpGrowth"),
                       YearKey("inflation"), YearKey("milexCurrentUSD"),
                       YearKey("milexPctGDP")} \cap DOMAIN m[c]} :
            c \in DOMAIN m}

\* C8: no selection records a year later than the cutoff year: not the
\* year-column selection of parse_sheet, not the year-keyed selection of
\* fetch_indicator, not the row filter of read_file.
C8_CutoffSafety ==
    /\ \A y \in RecordedYears(rf_acc.result) : y <= UNCutoff
    /\ \A y \in RecordedYears(ps_acc.result) : y <= UNCutoff
    /\ \A y \in RecordedYears(imf_data) : y <= UNCutoff

---------------------------------------------------------------------------
(* Claim on extract_latest *)

OwidCode(row) == Upper(Strip(PyStr(row.iso)))

\* the rows of code c whose value is a number: the valid observations of c
OwidValid(rows, c) ==
    {i \in DOMAIN rows :
        /\ OwidCode(rows[i]) = c
        /\ Truthy(rows[i].val)
        /\ PyFloat(rows[i].val).ok
        /\ IsNum(PyFloat(rows[i].val).val)}

OwidYear(rows, i) == YearOfText(Strip(PyStr(rows[i].year)))

\* C11: for a 3-character code, extract_latest returns the valid observation
\* whose year is the highest as a number, and of several rows with that year
\* the first in source order.
C11_LatestFirstOnTie ==
    (call_fn = "extract_latest" /\ call_done) =>
        \A c \in {"USA"} :
            LET V     == OwidValid(call_in, c)
                top   == {i \in V : \A j \in V :
                              OwidYear(call_in, j) <= OwidYear(call_in, i)}
            IN V # {} =>
                LET first == CHOOSE i \in top : \A j \in top : i <= j IN
                /\ c \in DOMAIN call_out
                /\ call_out[c] =
                      [value |-> PyFloat(call_in[first].val).val,
                       year  |-> Str(Strip(PyStr(call_in[first].year)))]

---------------------------------------------------------------------------
(* Claim on fetch_indicator *)

\* the years of a country's map that carry a value
IMFValued(year_data) == {y \in DOMAIN year_data : year_data[y] # None}

\* C12: for every country with a non-null value in some year, the indicator's
\* field holds the value of the most recent year that has a value: a null in
\* the latest year falls back to the most recent earlier year with a value.
C12_FallbackToValuedYear ==
    (imf_pc # "idle" /\ imf_resp.ok) =>
        \A c \in DOMAIN imf_resp.values :
            LET yd    == imf_resp.values[c]
                field == INDICATORS[imf_i - 1].field_name
            IN IMFValued(yd) # {} =>
                LET y == CHOOSE y \in IMFValued(yd) :
                             \A z \in IMFValued(yd) : YearOfText(z) <= YearOfText(y)
                IN /\ c \in DOMAIN imf_data
                   /\ field \in DOMAIN imf_data[c]
                   /\ imf_data[c][field] = yd[y]
                   /\ imf_data[c][YearKey(field)] = Str(y)

---------------------------------------------------------------------------
(* Claims on the search for the header row *)

\* ret is the first of the first 25 rows that qualifies, less one for the
\* 0-based index, or None when none of them qualifies
BoundedScan(rows, ret, Q(_)) ==
    LET hits == {i \in 1 .. Len(rows) : i <= HeaderScanLimit /\ Q(rows[i])}
    IN IF hits = {} THEN ret = None
       ELSE ret = Num((CHOOSE i \in hits : \A j \in hits : i <= j) - 1)

\* C13: the header search looks at the first 25 rows only: it returns the
\* first of them that qualifies, never an index of 25 or more, and not-found
\* when none of them qualifies; in find_header_row and in parse_sheet.
C13_BoundedHeaderScan ==
    call_done =>
        /\ call_fn = "find_header_row" =>
              BoundedScan(call_in, call_out, RowHasISO3)
        /\ call_fn = "parse_sheet_header" =>
              BoundedScan(call_in, call_out, SipriRowQualifies)

\* the cells of a row that are 4-digit numeric tokens
YearTokenCells(row) == {k \in DOMAIN row : IsYearToken(Strip(PyStr(row[k])))}

\* C14: parse_sheet takes a row as header only if it holds the sentinel
\* "Country" or most of its cells are 4-digit numeric tokens; one such token
\* among other cells does not make a header.
C14_WideHeaderDetection ==
    (call_fn = "parse_sheet_header" /\ call_done /\ call_out # None) =>
        LET row == call_in[call_out.n + 1] IN
        \/ \E k \in DOMAIN row : Strip(PyStr(row[k])) = "Country"
        \/ 2 * Cardinality(YearTokenCells(row)) > Len(row)

---------------------------------------------------------------------------
(* Claims on map_columns *)

\* the 0-based indexes of the header cells that contain, in any letter case,
\* a keyword the column map gives for field f
MCMatches(header_row, column_map, f) ==
    {i \in 0 .. Len(header_row) - 1 :
        /\ header_row[i + 1] # None
        /\ \E p \in DOMAIN column_map :
              /\ column_map[p][2] = f
              /\ Contains(Lower(Strip(PyStr(header_row[i + 1]))),
                          Lower(column_map[p][1]))}

MCLeftmost(S) == CHOOSE i \in S : \A j \in S : i <= j

\* the data fields a column map names
MCFields(column_map) ==
    {column_map[p][2] : p \in DOMAIN column_map} \ {"_ISO3_", "_YEAR_"}

MapColumnsReturned == call_fn = "map_columns" /\ call_done

C16_ColumnNeverReassigned ==
    MapColumnsReturned =>
        \A f, g \in DOMAIN call_out.field_cols :
            f # g => call_out.field_cols[f] # call_out.field_cols[g]

\* C17: after map_columns the column of the ISO3 role and the column of the
\* year role are not the column of any data field.
C17_RoleColumnsExcluded ==
    MapColumnsReturned =>
        \A f \in DOMAIN call_out.field_cols :
            /\ call_out.iso3_col # NoCol =>
                  call_out.field_cols[f] # call_out.iso3_col
            /\ call_out.year_col # NoCol =>
                  call_out.field_cols[f] # call_out.year_col


---------------------------------------------------------------------------
(* Claims on the resolution of an entity identifier *)

\* a 3-letter alphabetic token, among the names of the model
IsAlpha3(s) == Len(s) = 3 /\ s \in {"USA", "usa", "FRA", "fra"}

\* C18: an identifier that is already a 3-letter alphabetic token resolves to
\* its uppercase form, with no lookup in the override table or in pycountry:
\* in country_to_iso3 and in the ISO3 cell of read_file.
C18_CanonicalAcceptedDirectly ==
    /\ (call_fn = "country_to_iso3" /\ call_done /\ IsAlpha3(call_in.name))
          => call_out = Str(Upper(call_in.name))
    /\ \A id \in {"USA", "usa"} :
          DOMAIN ReadRows(<< <<Str(id), None, Num(1)>> >>, 0, NoCol,
                          RFField :> 2) = {Upper(id)}

\* C19: a key of the override table resolves to the override's code whatever
\* pycountry holds; otherwise the exact-name match is used before the fuzzy
\* search; the name is unresolved only when no strategy gives a match, a
\* lookup that raises counting as no match.
C19_ResolutionChain ==
    (call_fn = "country_to_iso3" /\ call_done) =>
        LET n   == Strip(call_in.name)
            lib == call_in.lib
        IN IF n \in DOMAIN NAME_TO_ISO3
           THEN call_out = Str(NAME_TO_ISO3[n])
           ELSE IF lib.imported /\ lib.get.kind = "hit"
           THEN call_out = Str(lib.get.alpha_3)
           ELSE IF lib.imported /\ lib.fuzzy.kind = "hit"
           THEN call_out = Str(lib.fuzzy.alpha_3)
           ELSE call_out = None

\* an override key for which pycountry would give another code
C19_Witness ==
    /\ call_fn = "country_to_iso3"
    /\ call_done
    /\ call_in.name = "United States"
    /\ call_in.lib.imported
    /\ call_in.lib.get = Match("UMI")
    /\ call_out = Str("USA")


---------------------------------------------------------------------------
(* Claim on the rows whose entity identifier is not resolved *)

\* C20: a data row whose entity identifier cannot be mapped to a country
\* code is recorded and not dropped silently: parse_sheet appends its name
\* to skipped and read_file leaves a record of it, the row adds no entry to
\* the result, and the loop goes on to the rows that follow.
C20_UnresolvedRecorded ==
    [][/\ (ps_n' = ps_n + 1 /\ ~IsLabelRow(ps_row') /\ RowIso3(ps_row') = None)
          => /\ ps_acc'.skipped
                   = Append(ps_acc.skipped, Strip(PyStr(ps_row'.name)))
             /\ ps_acc'.result = ps_acc.result
       /\ (/\ rf_pos' = rf_pos + 1
           /\ Truthy(rf_rows[rf_pos][1])
           /\ RFCode(rf_rows[rf_pos]) = "")
          => /\ rf_acc'.result = rf_acc.result
             /\ rf_acc' # rf_acc
      ]_vars

---------------------------------------------------------------------------
(* Claim on the value cells of the three extractors *)

\* the cell reads, trimmed and whatever its case, as one of the texts for
\* "no value"
C21Placeholder(cell) ==
    Lower(Strip(PyStr(cell))) \in {"", "nan", "none", "...", "xxx"}

\* C21: a cell that reads (trimmed, in any case) as "", nan, none, ... or xxx
\* is never stored as an observation: not by parse_sheet (the cell under the
\* year it records), not by read_file (the data cell of the row), not by
\* extract_latest (every stored value is the number of a row of that code
\* whose value is no such text).
C21_PlaceholderNeverStored ==
    [][/\ (ps_n' = ps_n + 1 /\ RowIso3(ps_row') # None) =>
            LET iso3 == RowIso3(ps_row').s IN
            \A i \in DOMAIN ps_year_cols :
                C21Placeholder(ps_row'.cells[i]) =>
                    ~ /\ iso3 \in DOMAIN ps_acc'.result
                      /\ DictGetOr(ps_acc'.result, iso3, EmptyDict)
                            # DictGetOr(ps_acc.result, iso3, EmptyDict)
                      /\ ps_acc'.result[iso3][YearKey(ps_sheet.field_name)]
                            = Str(StrOfInt(ps_year_cols[i]))
       /\ (rf_pos' = rf_pos + 1 /\ C21Placeholder(rf_rows[rf_pos][3])) =>
            \A c \in DOMAIN rf_acc'.result :
                RFField \in DOMAIN rf_acc'.result[c] =>
                    /\ c \in DOMAIN rf_acc.result
                    /\ RFField \in DOMAIN rf_acc.result[c]
                    /\ rf_acc'.result[c][RFField] = rf_acc.result[c][RFField]
       /\ (call_fn = "extract_latest" /\ ~call_done /\ call_done') =>
            \A c \in DOMAIN call_out' :
                \E i \in DOMAIN call_in :
                    /\ OwidCode(call_in[i]) = c
                    /\ ~C21Placeholder(call_in[i].val)
                    /\ PyFloat(call_in[i].val).ok
                    /\ call_out'[c].value = PyFloat(call_in[i].val).val
      ]_vars

---------------------------------------------------------------------------
(* Claim on the keys of the store *)

\* a text of exactly 3 uppercase letters, among the texts of the model
IsCountryCode(k) == Len(k) = 3 /\ k \in {"USA", "FRA", "CZE", "NAN", "XXX"}

\* C22: every key of a store is a country code of exactly 3 uppercase
\* letters: the keys fetch_imf_data.py merges into imf_data, the keys
\* read_file returns for the merge of fet_UN_data.py, the keys parse_sheet
\* returns.
C22_StoreKeysAreCodes ==
    /\ \A k \in DOMAIN imf_data : IsCountryCode(k)
    /\ \A k \in DOMAIN rf_acc.result : IsCountryCode(k)
    /\ \A k \in DOMAIN ps_acc.result : IsCountryCode(k)

---------------------------------------------------------------------------
(* Claim on the overwrite merge of fetch_owid.py *)

\* the countries whose value under field differs between two stores
ChangedValues(before, after, field) ==
    {c \in DOMAIN after :
        DictGet(after[c], field)
            # DictGet(DictGetOr(before, c, EmptyDict), field)}

\* C23: when the slug loop stores an extraction, every extracted value
\* replaces the stored one, and the count store returns is the number of
\* values of the field that changed in the store.
C23_OverwriteCountsChanges ==
    [][owid_success' = owid_success + 1 =>
        LET field     == CHART_INDICATORS[owid_i].field_name
            extracted == owid_log'[Len(owid_log')].extracted
        IN /\ \A c \in DOMAIN extracted :
                 /\ c \in DOMAIN owid_data'
                 /\ DictGet(owid_data'[c], field) = extracted[c].value
                 /\ DictGet(owid_data'[c], YearKey(field)) = extracted[c].year
           /\ owid_n' = Num(Cardinality(ChangedValues(owid_data, owid_data',
                                                      field)))
      ]_vars

---------------------------------------------------------------------------
(* Claim on the slug loop of fetch_owid.py *)

\* the fetches made for a field, in the order they were made
FetchesOf(field) == SelectSeq(owid_log, LAMBDA e : e.field = field)

\* C30: for each chart indicator the slugs are fetched in listed order, from
\* the first, and none after one that gave a non-empty extraction; that
\* extraction is what the store holds under the field; an indicator that is
\* dealt with is in the failed list exactly when every slug of its list was
\* fetched and none gave an extraction, and then its field is as it was
\* loaded; success plus the failed ones count the indicators dealt with (and
\* the one just stored), all of them at the end.
C30_SlugFallback ==
    /\ \A i \in 1 .. NumChartIndicators :
          LET ind     == CHART_INDICATORS[i]
              fetches == FetchesOf(ind.field_name)
              n       == Len(fetches)
              yields  == {k \in 1 .. n : fetches[k].extracted # EmptyDict}
              isFailed == \E k \in DOMAIN owid_failed :
                              owid_failed[k] = ind.field_name
          IN /\ n <= Len(ind.slugs)
             /\ \A k \in 1 .. n : fetches[k].slug = ind.slugs[k]
             /\ \A k \in yields : k = n
             /\ \A k \in yields : \A c \in DOMAIN fetches[k].extracted :
                   /\ c \in DOMAIN owid_data
                   /\ DictGet(owid_data[c], ind.field_name)
                         = fetches[k].extracted[c].value
                   /\ DictGet(owid_data[c], YearKey(ind.field_name))
                         = fetches[k].extracted[c].year
             /\ i < owid_i =>
                   /\ isFailed <=> yields = {}
                   /\ yields = {} => n = Len(ind.slugs)
             /\ i >= owid_i => ~isFailed
             /\ isFailed =>
                   \A c \in DOMAIN owid_data :
                       /\ DictGet(owid_data[c], ind.field_name)
                             = DictGet(DictGetOr(owid_loaded, c, EmptyDict),
                                       ind.field_name)
                       /\ DictGet(owid_data[c], YearKey(ind.field_name))
                             = DictGet(DictGetOr(owid_loaded, c, EmptyDict),
                                       YearKey(ind.field_name))
    /\ owid_success + Len(owid_failed)
          = (owid_i - 1) + (IF owid_found THEN 1 ELSE 0)
    /\ owid_pc = "done" =>
          owid_success + Len(owid_failed) = NumChartIndicators

\* main has ended with one indicator failed, its loaded value still stored,
\* and the other stored from its second slug after the first gave nothing
C30_Witness ==
    /\ owid_pc = "done"
    /\ owid_failed = <<CHART_INDICATORS[1].field_name>>
    /\ "USA" \in DOMAIN owid_loaded
    /\ owid_success = 1
    /\ Len(FetchesOf(CHART_INDICATORS[2].field_name)) = 2
    /\ "USA" \in DOMAIN owid_data
    /\ CHART_INDICATORS[2].field_name \in DOMAIN owid_data["USA"]

---------------------------------------------------------------------------
(* Claim on get_zip *)

\* the response is a body that starts with the ZIP magic bytes
IsZipResponse(resp) == resp.status = "200" /\ resp.data.magic = "PK"

\* the requests of the log whose response is a ZIP archive
ZipHits == {k \in DOMAIN zip_log : IsZipResponse(zip_log[k].resp)}

---------------------------------------------------------------------------
(* Claims on the fill-only merges of main of fet_UN_data.py *)

\* the slots of store `after` that `before` does not hold with that value
WrittenSlots(before, after) ==
    {p \in Slots(after) :
        p \notin Slots(before) \/ SlotValue(before, p) # SlotValue(after, p)}

\* C24: every step of main adds to total_merged the number of store entries
\* it writes, so that total_merged is the number of entries of the store
\* that differ from the loaded store; no entity and no entry is dropped; and
\* the merge of a map read_file can return leaves every entity of the map in
\* the store.
C24_FillOnlyCount ==
    /\ [](/\ total_merged = Cardinality(WrittenSlots(un_loaded, un_data))
          /\ Slots(un_loaded) \subseteq Slots(un_data)
          /\ un_pc = "loop" =>
                \A src \in SourceMaps :
                    DOMAIN src \subseteq DOMAIN MergeStore(un_data, src))
    /\ [][un_pc = "loop" =>
            total_merged' - total_merged
                = Cardinality(WrittenSlots(un_data, un_data'))]_vars

\* main has ended, having written values for a country the loaded store
\* did not have and for one it had
C24_Witness ==
    /\ un_pc = "done"
    /\ total_merged >= 3
    /\ "USA" \in DOMAIN un_loaded
    /\ "FRA" \in DOMAIN un_data
    /\ un_data["FRA"] # EmptyDict
    /\ \E p \in Slots(un_loaded) : SlotValue(un_loaded, p) # SlotValue(un_data, p)

\* field F of the store is non-null exactly when F_year is
PairedStore(m) ==
    \A c \in DOMAIN m : \A i \in 1 .. NumFiles :
        (DictGet(m[c], FILES[i].field) # None)
            <=> (DictGet(m[c], YearKey(FILES[i].field)) # None)

\* a row of a sheet gives this value and this year for country c
OneObservation(c, value, year) ==
    \E row \in UNRows :
        /\ Upper(Strip(PyStr(row[1]))) = c
        /\ row[3] = value
        /\ Str(RowYear(row, 1).year) = year

\* C25: if in the loaded store every field is non-null exactly when its year
\* is, the same holds of the store after every merge, and every value the
\* store holds with its year is the pair that was loaded or the value and
\* the year of one row of a sheet.
C25_PairingKept ==
    PairedStore(un_loaded) =>
        /\ PairedStore(un_data)
        /\ \A c \in DOMAIN un_data : \A i \in 1 .. NumFiles :
              LET F == FILES[i].field
                  v == DictGet(un_data[c], F)
                  y == DictGet(un_data[c], YearKey(F))
              IN v # None =>
                    \/ /\ c \in DOMAIN un_loaded
                       /\ DictGet(un_loaded[c], F) = v
                       /\ DictGet(un_loaded[c], YearKey(F)) = y
                    \/ OneObservation(c, v, y)

\* main has ended: the loaded store held nulls for a field and its year,
\* and a merge has filled both
C25_Witness ==
    /\ un_pc = "done"
    /\ "USA" \in DOMAIN un_loaded
    /\ FILES[1].field \in DOMAIN un_loaded["USA"]
    /\ YearKey(FILES[1].field) \in DOMAIN un_loaded["USA"]
    /\ un_loaded["USA"][FILES[1].field] = None
    /\ un_loaded["USA"][YearKey(FILES[1].field)] = None
    /\ un_data["USA"][FILES[1].field] # None
    /\ un_data["USA"][YearKey(FILES[1].field)] # None

\* C28: every entity the merge creates in the store has at least one field
\* (read_file returns no entity without a field value).
C28_NoEmptyEntity ==
    \A c \in (DOMAIN un_data) \ (DOMAIN un_loaded) : un_data[c] # EmptyDict

---------------------------------------------------------------------------
(* Claim on the header step of read_file *)

\* C26: whenever find_header_row finds a header row, map_columns, given a
\* column list with ("ISO3", "_ISO3_"), finds an ISO3 column in that row, and
\* the column it gives is a cell of the row that reads ISO3 in some case: the
\* "ISO3 column not found" return of read_file is never taken.
C26_HeaderHasISO3Column ==
    (call_fn = "read_file_header" /\ call_done) =>
        /\ call_out.outcome # "ISO3 column not found"
        /\ find_header_row(call_in.all_rows) # None =>
              LET header == call_in.all_rows[find_header_row(call_in.all_rows).n + 1]
                  col    == map_columns(header, call_in.column_map).iso3_col
              IN /\ col # NoCol
                 /\ col < Len(header)
                 /\ header[col + 1] # None
                 /\ Contains(Lower(PyStr(header[col + 1])), "iso3")
                 /\ call_out.outcome = "mapped"
                 /\ call_out.cols.iso3_col = col

\* the header row is the second row of the sheet and its ISO3 heading, in
\* lower case, is the third cell, after a number and an empty cell
C26_Witness ==
    /\ call_fn = "read_file_header"
    /\ call_done
    /\ call_out.outcome = "mapped"
    /\ call_out.header_idx = Num(1)
    /\ call_out.cols.iso3_col = 2
    /\ call_in.all_rows[2] = <<Num(1), None, Str("iso3")>>

---------------------------------------------------------------------------
(* Claim on the rows of parse_sheet that give one country *)

\* the rows of the sheet that resolve to code c and hold a valid number
RowsGiving(c) ==
    {i \in DOMAIN call_in.rows :
        /\ RowIso3(call_in.rows[i]) = Str(c)
        /\ \E k \in DOMAIN call_in.year_cols :
              C7ValidCell(call_in.rows[i].cells[k])}

=============================================================================
